---- MODULE Spec2Model ----
(***************************************************************************)
(* Wordpot: a tip-funded Wordle bot.  The model covers the game store      *)
(* (src/src/db.ts), the word feedback (src/src/game.ts) and the handlers   *)
(* of the bot (src/unnamed/part_003, lines 1-646: the variant of index.ts  *)
(* that awaits the asynchronous store of db.ts).                           *)
(*                                                                         *)
(* Every handler is an async function.  A step of the model is the code a  *)
(* handler runs between two consecutive awaits: it performs at most one    *)
(* statement of the store or one call of an external collaborator.         *)
(* Handlers in flight interleave at their awaits.  Calls of the store that *)
(* the code does not await (addDeposit and addEligiblePlayer in onTip) run *)
(* as detached tasks of the handler that started them.                     *)
(***************************************************************************)
EXTENDS Integers, Sequences, FiniteSets, Bags, TLC

\* ------------------------------------------------------------------ bounds
NumProcs == 2        \* handlers in flight at the same time
MaxHandlers == 3     \* handlers started over a whole behaviour
MaxGames == 3        \* rows of the games table
NumChannels == 1     \* channels (spaceId, channelId)
MaxTip == 2          \* the tip, in units of the dust threshold
MaxTipsInFlight == 1 \* tip handlers in flight at the same time
MaxBalance == 6      \* largest balance given to buildPayoutPlan on its own
NumChannelsWide == 2 \* channels where the numbering of the games is followed

\* --------------------------------------------------------------- constants
\* parseUnits('0.0001', 18): amounts are counted in units of this threshold
Dust == 1

Procs == 1..NumProcs
GameIds == 1..MaxGames
Amounts == {MaxTip}
Tokens == {"NATIVE", "0xT0"}
NATIVE == "NATIVE"

NoRow == -1          \* a select that found no row
NoGame == 0
NoId == "none"

\* Users of the chat: userId is the root address the chat reports, and
\* senderAddress the wallet that sends the tip.
Users == {"u1", "u2"}
userIdOf == [u \in Users |-> IF u = "u1" THEN "0xAA" ELSE "0xBB"]
senderAddressOf == [u \in Users |-> IF u = "u1" THEN "0xCc" ELSE "0xbb"]

\* Variant of addEligiblePlayer and isEligiblePlayer with a plausible fault:
\* the identifier is used as it comes
toLowerCase_asIs(id) == id

\* String.prototype.toLowerCase on the identifiers of the model
toLowerCase(id) ==
    CASE id = "0xAA" -> "0xaa"
      [] id = "0xCc" -> "0xcc"
      [] id = "0xBB" -> "0xbb"
      [] OTHER -> id

\* ------------------------------------------------------------------- words
Word(a, b, c, d, e) == <<a, b, c, d, e>>
WORD_LIST == { Word("c","r","a","n","e"), Word("g","r","a","c","e") }

\* Variant of toLowerCase on letters with a plausible fault: the letter is
\* used as it comes
lowerChar_asIs(ch) == ch

lowerChar(ch) ==
    CASE ch = "A" -> "a"
      [] ch = "B" -> "b"
      [] ch = "C" -> "c"
      [] ch = "E" -> "e"
      [] ch = "G" -> "g"
      [] ch = "N" -> "n"
      [] ch = "R" -> "r"
      [] OTHER -> ch

\* String.prototype.toLowerCase on a word
lowerWord(w) == [i \in 1..Len(w) |-> lowerChar(w[i])]

\* What computeFeedback gives when it throws 'Words must be exactly 5 letters'
WordsMustBe5Letters == <<"Words must be exactly 5 letters">>

\* guess.replace(/\s+/g, '').toLowerCase().trim()
RECURSIVE cleanGuess(_)
cleanGuess(s) ==
    IF s = <<>> THEN <<>>
    ELSE IF Head(s) = " " THEN cleanGuess(Tail(s))
    ELSE <<lowerChar(Head(s))>> \o cleanGuess(Tail(s))

\* The raw texts a user may send as a guess
GuessInputs ==
    { <<"c","r","a","n","e">>,
      <<"G","r","a"," ","c","e">>,
      <<"z","z","z","z","z">>,
      <<"a","b">>,
      <<" ">> }

\* getRandomWord: the draws of Math.random the model follows
getRandomWord == { Word("c","r","a","n","e") }

\* Variant of isValidWord with a plausible fault: the word list is not consulted
isValidWord_anyFive(w) == Len(w) = 5

isValidWord(w) == Len(w) = 5 /\ w \in WORD_LIST

Count(w, ch) == Cardinality({i \in 1..Len(w) : w[i] = ch})

\* Variant of the second pass with a plausible fault: a yellow does not
\* consume an occurrence of its letter
RECURSIVE feedbackPass2_noConsume(_, _, _, _, _)
feedbackPass2_noConsume(i, guess, target, res, gc) ==
    IF i > 5 THEN res
    ELSE IF res[i] = "green" THEN feedbackPass2_noConsume(i + 1, guess, target, res, gc)
    ELSE IF Count(target, guess[i]) > gc[guess[i]]
         THEN feedbackPass2_noConsume(i + 1, guess, target,
                                      [res EXCEPT ![i] = "yellow"], gc)
         ELSE feedbackPass2_noConsume(i + 1, guess, target, res, gc)

\* Second pass of computeFeedback: positions i..5, res the marks so far,
\* gc the letters consumed so far (greens and yellows).
RECURSIVE feedbackPass2(_, _, _, _, _)
feedbackPass2(i, guess, target, res, gc) ==
    IF i > 5 THEN res
    ELSE IF res[i] = "green" THEN feedbackPass2(i + 1, guess, target, res, gc)
    ELSE LET ch == guess[i]
             targetCount == Count(target, ch)
             guessCount == gc[ch]
         IN  IF targetCount > guessCount
             THEN feedbackPass2(i + 1, guess, target,
                                [res EXCEPT ![i] = "yellow"],
                                [gc EXCEPT ![ch] = guessCount + 1])
             ELSE feedbackPass2(i + 1, guess, target, res, gc)

\* Variant of computeFeedback with a plausible fault: the first pass marks no
\* green, every position is left to the second pass
computeFeedback_noFirstPass(guess, target) ==
    LET guessLower == lowerWord(guess)
        targetLower == lowerWord(target)
    IN  IF Len(guessLower) # 5 \/ Len(targetLower) # 5
        THEN WordsMustBe5Letters
        ELSE LET letters == {guessLower[i] : i \in 1..5} \cup {targetLower[i] : i \in 1..5}
             IN  feedbackPass2(1, guessLower, targetLower, [i \in 1..5 |-> "gray"],
                               [ch \in letters |-> 0])

\* computeFeedback(guess, target).letters: both words are lowered, the call
\* throws unless both have 5 letters, then the two passes
computeFeedback(guess, target) ==
    LET guessLower == lowerWord(guess)
        targetLower == lowerWord(target)
    IN  IF Len(guessLower) # 5 \/ Len(targetLower) # 5
        THEN WordsMustBe5Letters
        ELSE LET letters == {guessLower[i] : i \in 1..5} \cup {targetLower[i] : i \in 1..5}
                 res1 == [i \in 1..5 |-> IF guessLower[i] = targetLower[i]
                                         THEN "green" ELSE "gray"]
                 gc1 == [ch \in letters |->
                            Cardinality({i \in 1..5 : guessLower[i] = ch
                                                      /\ targetLower[i] = ch})]
             IN  feedbackPass2(1, guessLower, targetLower, res1, gc1)

isCorrect(feedback) == \A i \in 1..Len(feedback) : feedback[i] = "green"

\* ------------------------------------------------------------------- state
VARIABLES
    games,       \* table games: games[id], id = 1..Len(games) in insertion order
    counters,    \* table game_number_counters: count per channel, 0 = no row
    guesses,     \* table guesses: a bag of rows
    pools,       \* table pools: pools[gameId][token], NoRow = no row
    deposits,    \* table deposits: a bag of rows
    payouts,     \* table payouts: a set of rows (txHash tells them apart)
    eligible,    \* table eligible_players: a set of <<gameId, userId>>
    chain,       \* the native balance held at bot.appAddress
    txCount,     \* transactions sent by execute so far
    h,           \* the handlers in flight: h[p] is the frame of handler p
    started,     \* handlers started so far
    casTrue,     \* history: per game, calls of casToPayoutPending that returned true
    transfers,   \* history: per game, calls of execute issued
    credited     \* history: per game, amounts added to the NATIVE pool by
                 \* syncWalletBalanceToPool and rolloverToNewGame

vars == <<games, counters, guesses, pools, deposits, payouts, eligible, chain,
          txCount, h, started, casTrue, transfers, credited>>

store == <<games, counters, guesses, pools, deposits, payouts, eligible>>

\* The channels (spaceId, channelId) the events come from: one entry of
\* `counters` each
Channels == DOMAIN counters

\* The frame of a handler that is not running.  `ops` names the calls that
\* processGuess has made so far to write to the store or to the chain, and
\* `error` the error that executePayout, announceWinner or startNewGame threw;
\* `confirmed` tells that waitForTransactionReceipt returned for `tx`
Idle ==
    [ pc |-> "idle", kind |-> "none", chan |-> 0, user |-> NoId, sender |-> NoId,
      amount |-> 0, guess |-> <<>>, game |-> NoGame, gstate |-> "none",
      ctx |-> "none", num |-> 0, created |-> NoGame, cur |-> NoGame,
      toks |-> <<>>, amt |-> 0, rolled |-> 0, existing |-> NoRow, plan |-> <<>>, tx |-> 0,
      reply |-> "none", prize |-> <<>>, currency |-> "none", dep |-> "none",
      depExisting |-> NoRow, el |-> <<"none", "none">>,
      ops |-> {}, error |-> "none", confirmed |-> FALSE, definition |-> "none",
      feedback |-> <<>>, reads |-> <<>>, limit |-> 0, entries |-> <<>> ]

Init ==
    /\ games = <<>>
    /\ counters = [c \in 1..NumChannels |-> 0]
    /\ guesses = EmptyBag
    /\ pools = [g \in GameIds |-> [t \in Tokens |-> NoRow]]
    /\ deposits = EmptyBag
    /\ payouts = {}
    /\ eligible = {}
    /\ chain = 0
    /\ txCount = 0
    /\ h = [p \in Procs |-> Idle]
    /\ started = 0
    /\ casTrue = [g \in GameIds |-> 0]
    /\ transfers = [g \in GameIds |-> 0]
    /\ credited = [g \in GameIds |-> 0]

Min(S) == CHOOSE x \in S : \A y \in S : x <= y

\* The frame of handler p becomes f
Goto(p, f) == h' = [h EXCEPT ![p] = f]

\* The handler ends: its frame keeps what it was about and the reply it gave
Done(f, reply) ==
    [Idle EXCEPT !.pc = "done", !.kind = f.kind, !.chan = f.chan, !.user = f.user,
                 !.sender = f.sender, !.amount = f.amount, !.game = f.game,
                 !.reply = reply, !.guess = f.guess, !.prize = f.prize,
                 !.cur = f.cur, !.created = f.created, !.rolled = f.rolled,
                 !.dep = f.dep, !.depExisting = f.depExisting, !.el = f.el,
                 !.ops = f.ops, !.error = f.error, !.tx = f.tx,
                 !.confirmed = f.confirmed, !.definition = f.definition,
                 !.feedback = f.feedback, !.reads = f.reads, !.plan = f.plan,
                 !.limit = f.limit, !.entries = f.entries]

\* A handler starts in the lowest free frame
CanStart(p) ==
    /\ h[p].pc = "idle"
    /\ \A q \in Procs : q < p => h[q].pc # "idle"
    /\ started < MaxHandlers

\* ------------------------------------------------------ store: games
ActiveGames(c) ==
    {g \in 1..Len(games) : games[g].channelId = c /\ games[g].state = "ACTIVE"}

\* Variant of getCurrentGame with a plausible fault: the select lacks the
\* conditions on spaceId and channelId
getCurrentGame_anyChannel(c) ==
    LET active == {g \in 1..Len(games) : games[g].state = "ACTIVE"}
    IN  IF active = {} THEN NoGame ELSE Min(active)

\* Database.getCurrentGame: the first ACTIVE row of the channel (limit 1)
getCurrentGame(c) ==
    IF ActiveGames(c) = {} THEN NoGame ELSE Min(ActiveGames(c))

\* Database.createGame, the row it inserts
NewGameRow(c, w, n) ==
    [ channelId |-> c, state |-> "ACTIVE", targetWord |-> w,
      winnerUserId |-> NoId, wonAt |-> "null", gameNumber |-> n ]

\* Variant of casToPayoutPending with a plausible fault: the update leaves
\* wonAt out
casToPayoutPending_set_noWonAt(gs, g, u) ==
    [gs EXCEPT ![g].state = "PAYOUT_PENDING", ![g].winnerUserId = u]

\* Database.casToPayoutPending, its update statement
casToPayoutPending_set(gs, g, u) ==
    [gs EXCEPT ![g].state = "PAYOUT_PENDING", ![g].winnerUserId = u,
               ![g].wonAt = "now"]

\* Variants of setGameState with a plausible fault: the update matches no
\* row; the update writes ACTIVE whatever state it is given
setGameState_noRow(gs, g, st) == gs
setGameState_reopens(gs, g, st) == [gs EXCEPT ![g].state = "ACTIVE"]

\* Database.setGameState
setGameState(gs, g, st) == [gs EXCEPT ![g].state = st]

\* ------------------------------------------------------ store: pools
\* Database.getPool(...)?.trackedBalance, NoRow when there is no row
getPool(g, t) == pools[g][t]

\* Database.getPoolBalance
getPoolBalance(g, t) == IF pools[g][t] = NoRow THEN 0 ELSE pools[g][t]

\* Database.getPoolTokens, in a fixed order of the tokens
TokenOrder == <<"NATIVE", "0xT0">>
getPoolTokens(g) ==
    SelectSeq(TokenOrder, LAMBDA t : pools[g][t] # NoRow)

\* Database.addToPool after its getPool returned `existing`: the insert of a
\* row whose id exists violates the primary key and throws
addToPool_throws(g, t, existing) == existing = NoRow /\ pools[g][t] # NoRow

\* Database.addToPool after its getPool returned `existing`: the table after
\* the update (existing row) or the insert (no row)
addToPool_write(ps, g, t, existing, amount) ==
    IF existing # NoRow
    THEN [ps EXCEPT ![g][t] = existing + amount]
    ELSE [ps EXCEPT ![g][t] = amount]

Add1(f, g) == [f EXCEPT ![g] = @ + 1]

\* ----------------------------------------------- getOrCreateGame, createGame
\* getOrCreateGame resumes in the handler that called it
AfterGetOrCreateGame(f) ==
    CASE f.kind = "tip" -> [f EXCEPT !.pc = "onTip_deposit"]
      [] f.kind = "guess" -> [f EXCEPT !.pc = "isEligiblePlayer_select"]
      [] OTHER -> [f EXCEPT !.pc = "status_send"]

\* getOrCreateGame: await db.getCurrentGame; with no current game, await
\* getBalance (a failed read throws out of the handler), then createGame
getOrCreateGame_getCurrentGame(p) ==
    /\ h[p].pc = "getCurrentGame"
    /\ LET g == getCurrentGame(h[p].chan)
       IN  IF g # NoGame
           THEN Goto(p, AfterGetOrCreateGame(
                           [h[p] EXCEPT !.game = g, !.gstate = games[g].state]))
           ELSE \E ok \in BOOLEAN :
                   IF ok
                   THEN Goto(p, [h[p] EXCEPT !.pc = "createGame_select", !.ctx = "goc"])
                   ELSE Goto(p, Done(h[p], "error"))
    /\ UNCHANGED <<store, chain, txCount, started, casTrue, transfers, credited>>

\* Variant of createGame with a plausible fault: one counter row for all the
\* channels
createGame_select_shared(p) ==
    /\ h[p].pc = "createGame_select"
    /\ LET n == CHOOSE x \in {counters[c] : c \in Channels} :
                    \A c \in Channels : counters[c] <= x
       IN  Goto(p, [h[p] EXCEPT !.pc = "createGame_counter", !.num = n])
    /\ UNCHANGED <<store, chain, txCount, started, casTrue, transfers, credited>>

\* createGame: select the counter row of the channel
createGame_select(p) ==
    /\ h[p].pc = "createGame_select"
    /\ Goto(p, [h[p] EXCEPT !.pc = "createGame_counter", !.num = counters[h[p].chan]])
    /\ UNCHANGED <<store, chain, txCount, started, casTrue, transfers, credited>>

\* What a handler does when createGame throws in it
CreateGameThrows(f) ==
    IF f.ctx = "win"
    THEN Done([f EXCEPT !.error = "startNewGame"], "payout_failed")
    ELSE Done(f, "error")

\* createGame: update the counter row read, or insert the first one
createGame_counter(p) ==
    /\ h[p].pc = "createGame_counter"
    /\ LET c == h[p].chan
           n == h[p].num
       IN  IF n > 0
           THEN /\ counters' = [counters EXCEPT ![c] = n + 1]
                /\ Goto(p, [h[p] EXCEPT !.pc = "createGame_insert", !.num = n + 1])
           ELSE IF counters[c] # 0
           THEN /\ Goto(p, CreateGameThrows(h[p]))
                /\ UNCHANGED counters
           ELSE /\ counters' = [counters EXCEPT ![c] = 1]
                /\ Goto(p, [h[p] EXCEPT !.pc = "createGame_insert", !.num = 1])
    /\ UNCHANGED <<games, guesses, pools, deposits, payouts, eligible, chain,
                   txCount, started, casTrue, transfers, credited>>

\* Variant of createGame with a plausible fault: the players eligible for the
\* games of the channel are made eligible for the new game
createGame_insert_carriesEligible(p) ==
    /\ h[p].pc = "createGame_insert"
    /\ Len(games) < MaxGames
    /\ \E w \in getRandomWord :
          games' = Append(games, NewGameRow(h[p].chan, w, h[p].num))
    /\ LET g == Len(games) + 1
       IN  /\ eligible' = eligible \cup
                  {<<g, e[2]>> : e \in {x \in eligible :
                                           games[x[1]].channelId = h[p].chan}}
           /\ IF h[p].ctx = "goc"
              THEN Goto(p, [h[p] EXCEPT !.pc = "sync_getPoolTokens", !.game = g,
                                        !.gstate = "ACTIVE", !.num = 0, !.created = g])
              ELSE Goto(p, [h[p] EXCEPT !.pc = "startNewGame_send", !.num = 0,
                                        !.created = g])
    /\ UNCHANGED <<counters, guesses, pools, deposits, payouts, chain,
                   txCount, started, casTrue, transfers, credited>>

\* createGame: insert the game row; getRandomWord chose the target
createGame_insert(p) ==
    /\ h[p].pc = "createGame_insert"
    /\ Len(games) < MaxGames
    /\ \E w \in getRandomWord :
          games' = Append(games, NewGameRow(h[p].chan, w, h[p].num))
    /\ LET g == Len(games) + 1
       IN  IF h[p].ctx = "goc"
           THEN Goto(p, [h[p] EXCEPT !.pc = "sync_getPoolTokens", !.game = g,
                                     !.gstate = "ACTIVE", !.num = 0, !.created = g])
           ELSE Goto(p, [h[p] EXCEPT !.pc = "startNewGame_send", !.num = 0,
                                     !.created = g])
    /\ UNCHANGED <<counters, guesses, pools, deposits, payouts, eligible, chain,
                   txCount, started, casTrue, transfers, credited>>

\* syncWalletBalanceToPool: await db.getPoolTokens
sync_getPoolTokens(p) ==
    /\ h[p].pc = "sync_getPoolTokens"
    /\ IF Len(getPoolTokens(h[p].game)) > 0
       THEN Goto(p, AfterGetOrCreateGame(h[p]))
       ELSE Goto(p, [h[p] EXCEPT !.pc = "sync_getBalance"])
    /\ UNCHANGED <<store, chain, txCount, started, casTrue, transfers, credited>>

\* syncWalletBalanceToPool: await getBalance; a failed read is caught
sync_getBalance(p) ==
    /\ h[p].pc = "sync_getBalance"
    /\ \E ok \in BOOLEAN :
          IF ok /\ chain > 0 /\ chain > Dust
          THEN Goto(p, [h[p] EXCEPT !.pc = "sync_getPool", !.amt = chain])
          ELSE Goto(p, AfterGetOrCreateGame(h[p]))
    /\ UNCHANGED <<store, chain, txCount, started, casTrue, transfers, credited>>

\* syncWalletBalanceToPool: addToPool, its getPool
sync_getPool(p) ==
    /\ h[p].pc = "sync_getPool"
    /\ Goto(p, [h[p] EXCEPT !.pc = "sync_addToPool",
                            !.existing = getPool(h[p].game, NATIVE)])
    /\ UNCHANGED <<store, chain, txCount, started, casTrue, transfers, credited>>

\* syncWalletBalanceToPool: addToPool, its update or insert; a throw is caught
sync_addToPool(p) ==
    /\ h[p].pc = "sync_addToPool"
    /\ LET g == h[p].game
           f == AfterGetOrCreateGame([h[p] EXCEPT !.amt = 0, !.existing = NoRow])
       IN  IF addToPool_throws(g, NATIVE, h[p].existing)
           THEN /\ Goto(p, f)
                /\ UNCHANGED <<pools, credited>>
           ELSE /\ pools' = addToPool_write(pools, g, NATIVE, h[p].existing, h[p].amt)
                /\ credited' = [credited EXCEPT ![g] = @ + h[p].amt]
                /\ Goto(p, f)
    /\ UNCHANGED <<games, counters, guesses, deposits, payouts, eligible, chain,
                   txCount, started, casTrue, transfers>>

\* --------------------------------------------------------- /pool, /wordle
\* onSlashCommand('pool') and onSlashCommand('wordle'): getOrCreateGame first
onSlashCommand_pool(p) ==
    /\ CanStart(p)
    /\ \E c \in Channels :
          Goto(p, [Idle EXCEPT !.pc = "getCurrentGame", !.kind = "status", !.chan = c])
    /\ started' = started + 1
    /\ UNCHANGED <<store, chain, txCount, casTrue, transfers, credited>>

\* /pool, /wordle: the reads and the message sent
status_send(p) ==
    /\ h[p].pc = "status_send"
    /\ Goto(p, Done(h[p], "status"))
    /\ UNCHANGED <<store, chain, txCount, started, casTrue, transfers, credited>>

\* ------------------------------------------------------------------- onTip
\* bot.onTip: a tip event for the bot's address arrives (a tip to another
\* address returns at once).  The tipped funds are at the receiver when the
\* event is delivered.  The sender of the event is drawn where the handler
\* first reads it.
onTip(p) ==
    /\ CanStart(p)
    /\ Cardinality({q \in Procs : h[q].kind = "tip"}) < MaxTipsInFlight
    /\ \E c \in Channels, a \in Amounts, cy \in {"native", "erc20"} :
          /\ Goto(p, [Idle EXCEPT !.pc = "getCurrentGame", !.kind = "tip",
                                  !.chan = c, !.amount = a, !.currency = cy])
          /\ chain' = IF cy = "native" THEN chain + a ELSE chain
    /\ started' = started + 1
    /\ UNCHANGED <<store, txCount, casTrue, transfers, credited>>

\* onTip after getOrCreateGame: the state check and the currency check; then
\* db.addDeposit and, after the await of getBalance, db.addEligiblePlayer
\* (twice) are called and not awaited; the handler awaits formatPool and
\* sendMessage
onTip_deposit(p) ==
    /\ h[p].pc = "onTip_deposit"
    /\ IF h[p].gstate = "PAYOUT_PENDING"
       THEN Goto(p, Done(h[p], "being_paid_out"))
       ELSE IF h[p].currency = "erc20"
       THEN Goto(p, Done(h[p], "tip_rejected"))
       ELSE \E u \in Users :
               Goto(p, [h[p] EXCEPT !.pc = "onTip_send", !.user = userIdOf[u],
                                    !.sender = senderAddressOf[u],
                                    !.dep = "insert", !.el = <<"call", "call">>])
    /\ UNCHANGED <<store, chain, txCount, started, casTrue, transfers, credited>>

\* onTip: the tip-received message is sent
onTip_send(p) ==
    /\ h[p].pc = "onTip_send"
    /\ Goto(p, Done(h[p], "tip_received"))
    /\ UNCHANGED <<store, chain, txCount, started, casTrue, transfers, credited>>

\* Database.addDeposit, the row it inserts
DepositRow(f) ==
    [gameId |-> f.game, sender |-> f.sender, token |-> NATIVE, amount |-> f.amount]

\* Database.addDeposit (detached): insert the deposit row
addDeposit_insert(p) ==
    /\ h[p].dep = "insert"
    /\ deposits' = deposits (+) SetToBag({DepositRow(h[p])})
    /\ Goto(p, [h[p] EXCEPT !.dep = "getPool"])
    /\ UNCHANGED <<games, counters, guesses, pools, payouts, eligible, chain,
                   txCount, started, casTrue, transfers, credited>>

\* Database.addDeposit (detached): addToPool, its getPool
addDeposit_getPool(p) ==
    /\ h[p].dep = "getPool"
    /\ Goto(p, [h[p] EXCEPT !.dep = "addToPool",
                            !.depExisting = getPool(h[p].game, NATIVE)])
    /\ UNCHANGED <<store, chain, txCount, started, casTrue, transfers, credited>>

\* Database.addDeposit (detached): addToPool, its update or insert; a throw
\* rejects the promise nobody awaits
addDeposit_addToPool(p) ==
    /\ h[p].dep = "addToPool"
    /\ IF addToPool_throws(h[p].game, NATIVE, h[p].depExisting)
       THEN /\ Goto(p, [h[p] EXCEPT !.dep = "failed", !.depExisting = NoRow])
            /\ UNCHANGED pools
       ELSE /\ pools' = addToPool_write(pools, h[p].game, NATIVE,
                                        h[p].depExisting, h[p].amount)
            /\ Goto(p, [h[p] EXCEPT !.dep = "done", !.depExisting = NoRow])
    /\ UNCHANGED <<games, counters, guesses, deposits, payouts, eligible, chain,
                   txCount, started, casTrue, transfers, credited>>

\* The identifier the k-th addEligiblePlayer call of onTip is given
EligibleArg(f, k) == IF k = 1 THEN f.user ELSE f.sender

\* Database.addEligiblePlayer (detached): the row of the lowercased id is
\* selected and, when there is none, inserted
addEligiblePlayer(p, k) ==
    /\ h[p].el[k] = "call"
    /\ eligible' = eligible \cup {<<h[p].game, toLowerCase(EligibleArg(h[p], k))>>}
    /\ Goto(p, [h[p] EXCEPT !.el[k] = "done"])
    /\ UNCHANGED <<games, counters, guesses, pools, deposits, payouts, chain,
                   txCount, started, casTrue, transfers, credited>>

\* Database.addEligiblePlayer, its two statements: the select of the row of
\* the lowercased id
addEligiblePlayer_select(p, k) ==
    /\ h[p].el[k] = "call"
    /\ IF <<h[p].game, toLowerCase(EligibleArg(h[p], k))>> \in eligible
       THEN Goto(p, [h[p] EXCEPT !.el[k] = "done"])
       ELSE Goto(p, [h[p] EXCEPT !.el[k] = "insert"])
    /\ UNCHANGED <<store, chain, txCount, started, casTrue, transfers, credited>>

\* Database.addEligiblePlayer: the insert when the select found no row; the
\* id is the primary key, an insert of an id that exists throws
addEligiblePlayer_insert(p, k) ==
    /\ h[p].el[k] = "insert"
    /\ LET row == <<h[p].game, toLowerCase(EligibleArg(h[p], k))>>
       IN  IF row \in eligible
           THEN /\ Goto(p, [h[p] EXCEPT !.el[k] = "failed"])
                /\ UNCHANGED eligible
           ELSE /\ eligible' = eligible \cup {row}
                /\ Goto(p, [h[p] EXCEPT !.el[k] = "done"])
    /\ UNCHANGED <<games, counters, guesses, pools, deposits, payouts, chain,
                   txCount, started, casTrue, transfers, credited>>

\* ------------------------------------------------------------- processGuess
\* onSlashCommand('guess'), onMessage in a thread: getOrCreateGame first.  The
\* user and the text of the event are drawn where the handler first reads
\* them; the handler cleans the text before it hands it to processGuess.
onSlashCommand_guess(p) ==
    /\ CanStart(p)
    /\ \E c \in Channels :
          Goto(p, [Idle EXCEPT !.pc = "getCurrentGame", !.kind = "guess", !.chan = c])
    /\ started' = started + 1
    /\ UNCHANGED <<store, chain, txCount, casTrue, transfers, credited>>

\* processGuess once the user is known to be eligible: the text is cleaned and
\* validated; a valid word goes on to db.addGuess
processGuess_validate(f, text) ==
    LET clean == cleanGuess(text)
        g == [f EXCEPT !.guess = clean]
    IN  IF clean = <<>> THEN Done(g, "usage")
        ELSE IF Len(clean) # 5 THEN Done(g, "bad_length")
        ELSE IF ~isValidWord(clean) THEN Done(g, "invalid_word")
        ELSE [g EXCEPT !.pc = "addGuess"]

\* processGuess: the state check on the game it was given, then
\* isEligiblePlayer, its select in eligible_players
isEligiblePlayer_select(p) ==
    /\ h[p].pc = "isEligiblePlayer_select"
    /\ IF h[p].gstate = "PAYOUT_PENDING"
       THEN Goto(p, Done(h[p], "being_paid_out"))
       ELSE \E u \in Users, text \in GuessInputs :
               LET f == [h[p] EXCEPT !.user = userIdOf[u]]
               IN  IF <<f.game, toLowerCase(f.user)>> \in eligible
                   THEN Goto(p, processGuess_validate(f, cleanGuess(text)))
                   ELSE Goto(p, [f EXCEPT !.pc = "isEligiblePlayer_getDeposits"])
    /\ UNCHANGED <<store, chain, txCount, started, casTrue, transfers, credited>>

\* Variant of isEligiblePlayer with a plausible fault: the deposits of all the
\* games are searched for the sender
isEligiblePlayer_getDeposits_anyGame(p) ==
    /\ h[p].pc = "isEligiblePlayer_getDeposits"
    /\ IF \E d \in BagToSet(deposits) :
             toLowerCase(d.sender) = toLowerCase(h[p].user)
       THEN \E text \in GuessInputs :
               Goto(p, processGuess_validate(h[p], cleanGuess(text)))
       ELSE Goto(p, Done(h[p], "must_tip"))
    /\ UNCHANGED <<store, chain, txCount, started, casTrue, transfers, credited>>

\* Variant of isEligiblePlayer with a plausible fault: the deposits are read
\* and the answer is true whatever they hold
isEligiblePlayer_getDeposits_any(p) ==
    /\ h[p].pc = "isEligiblePlayer_getDeposits"
    /\ \E text \in GuessInputs :
          Goto(p, processGuess_validate(h[p], cleanGuess(text)))
    /\ UNCHANGED <<store, chain, txCount, started, casTrue, transfers, credited>>

\* isEligiblePlayer: some deposit of the game has the user as its sender
isEligiblePlayer_getDeposits(p) ==
    /\ h[p].pc = "isEligiblePlayer_getDeposits"
    /\ IF \E d \in BagToSet(deposits) :
             d.gameId = h[p].game /\ toLowerCase(d.sender) = toLowerCase(h[p].user)
       THEN \E text \in GuessInputs :
               Goto(p, processGuess_validate(h[p], cleanGuess(text)))
       ELSE Goto(p, Done(h[p], "must_tip"))
    /\ UNCHANGED <<store, chain, txCount, started, casTrue, transfers, credited>>

\* Database.isEligiblePlayer on one state of the store: the lowercased id has
\* a row in eligible_players, or a deposit of the game has it as its sender
isEligiblePlayer(g, id) ==
    \/ <<g, toLowerCase(id)>> \in eligible
    \/ \E d \in BagToSet(deposits) :
          d.gameId = g /\ toLowerCase(d.sender) = toLowerCase(id)

\* Database.addGuess, the row it inserts
GuessRow(f) == [gameId |-> f.game, userId |-> f.user, guess |-> f.guess]

\* processGuess: computeFeedback against the target of the game it was given,
\* then await db.addGuess
addGuess(p) ==
    /\ h[p].pc = "addGuess"
    /\ guesses' = guesses (+) SetToBag({GuessRow(h[p])})
    /\ Goto(p, [h[p] EXCEPT !.pc = "getUserGuesses", !.ops = @ \cup {"addGuess"}])
    /\ UNCHANGED <<games, counters, pools, deposits, payouts, eligible, chain,
                   txCount, started, casTrue, transfers, credited>>

\* processGuess: await db.getUserGuesses; a wrong guess gets its feedback
getUserGuesses(p) ==
    /\ h[p].pc = "getUserGuesses"
    /\ IF isCorrect(computeFeedback(h[p].guess, games[h[p].game].targetWord))
       THEN Goto(p, [h[p] EXCEPT !.pc = "cas_getGame"])
       ELSE Goto(p, Done(h[p], "feedback"))
    /\ UNCHANGED <<store, chain, txCount, started, casTrue, transfers, credited>>

\* Variant of processGuess with a plausible fault: no return after the
\* too-late message, the loser goes on to executePayout
cas_getGame_noReturn(p) ==
    /\ h[p].pc = "cas_getGame"
    /\ LET f == [h[p] EXCEPT !.ops = @ \cup {"casToPayoutPending"}]
       IN  IF games[f.game].state # "ACTIVE"
           THEN Goto(p, [f EXCEPT !.pc = "pay_getSmartAccount", !.reply = "too_late"])
           ELSE Goto(p, [f EXCEPT !.pc = "cas_update"])
    /\ UNCHANGED <<store, chain, txCount, started, casTrue, transfers, credited>>

\* Database.casToPayoutPending: await this.getGame; false unless ACTIVE
cas_getGame(p) ==
    /\ h[p].pc = "cas_getGame"
    /\ LET f == [h[p] EXCEPT !.ops = @ \cup {"casToPayoutPending"}]
       IN  IF games[f.game].state # "ACTIVE"
           THEN Goto(p, Done(f, "too_late"))
           ELSE Goto(p, [f EXCEPT !.pc = "cas_update"])
    /\ UNCHANGED <<store, chain, txCount, started, casTrue, transfers, credited>>

\* Database.casToPayoutPending: the update; the call returns true
cas_update(p) ==
    /\ h[p].pc = "cas_update"
    /\ games' = casToPayoutPending_set(games, h[p].game, h[p].user)
    /\ casTrue' = Add1(casTrue, h[p].game)
    /\ Goto(p, [h[p] EXCEPT !.pc = "pay_getSmartAccount"])
    /\ UNCHANGED <<counters, guesses, pools, deposits, payouts, eligible, chain,
                   txCount, started, transfers, credited>>

\* ------------------------------------------------------------ executePayout
\* buildPayoutPlan of part_003: one NATIVE entry with the whole balance held
\* at bot.appAddress when the read succeeds and it is positive
buildPayoutPlan(ok, balance) ==
    IF ok /\ balance > 0 THEN <<[token |-> NATIVE, amount |-> balance]>> ELSE <<>>

\* Variant of executePayout with a plausible fault: the missing smart account
\* is not checked and the payout goes on with no address
pay_getSmartAccount_noCheck(p) ==
    /\ h[p].pc = "pay_getSmartAccount"
    /\ \E found \in BOOLEAN :
          IF found
          THEN Goto(p, [h[p] EXCEPT !.pc = "pay_buildPayoutPlan"])
          ELSE Goto(p, [h[p] EXCEPT !.pc = "pay_buildPayoutPlan",
                                    !.error = "no_smart_account"])
    /\ UNCHANGED <<store, chain, txCount, started, casTrue, transfers, credited>>

\* executePayout: the format check of winnerUserId (every id of the model is
\* 0x + 40 hex digits), then await getSmartAccountFromUserId; no account throws
pay_getSmartAccount(p) ==
    /\ h[p].pc = "pay_getSmartAccount"
    /\ \E found \in BOOLEAN :
          IF found
          THEN Goto(p, [h[p] EXCEPT !.pc = "pay_buildPayoutPlan"])
          ELSE Goto(p, Done([h[p] EXCEPT !.error = "no_smart_account"],
                            "payout_failed"))
    /\ UNCHANGED <<store, chain, txCount, started, casTrue, transfers, credited>>

\* Variant of executePayout with a plausible fault: an empty plan is logged
\* and skipped, executePayout returns without a transfer
pay_buildPayoutPlan_noThrow(p) ==
    /\ h[p].pc = "pay_buildPayoutPlan"
    /\ \E ok \in BOOLEAN :
          LET plan == buildPayoutPlan(ok, chain)
          IN  IF Len(plan) = 0
              THEN Goto(p, [h[p] EXCEPT !.pc = "announce_buildPayoutPlan",
                                        !.error = "no_funds"])
              ELSE Goto(p, [h[p] EXCEPT !.pc = "pay_execute", !.plan = plan])
    /\ UNCHANGED <<store, chain, txCount, started, casTrue, transfers, credited>>

\* executePayout: await buildPayoutPlan; an empty plan throws
pay_buildPayoutPlan(p) ==
    /\ h[p].pc = "pay_buildPayoutPlan"
    /\ \E ok \in BOOLEAN :
          LET plan == buildPayoutPlan(ok, chain)
          IN  IF Len(plan) = 0
              THEN Goto(p, Done([h[p] EXCEPT !.error = "no_funds"], "payout_failed"))
              ELSE Goto(p, [h[p] EXCEPT !.pc = "pay_execute", !.plan = plan])
    /\ UNCHANGED <<store, chain, txCount, started, casTrue, transfers, credited>>

\* executePayout: await execute with one call per plan entry; the transaction
\* moves the funds when the balance covers them, otherwise execute throws
pay_execute(p) ==
    /\ h[p].pc = "pay_execute"
    /\ transfers' = Add1(transfers, h[p].game)
    /\ \E ok \in BOOLEAN :
          IF ok /\ chain >= h[p].plan[1].amount
          THEN /\ chain' = chain - h[p].plan[1].amount
               /\ txCount' = txCount + 1
               /\ Goto(p, [h[p] EXCEPT !.pc = "pay_wait", !.tx = txCount + 1,
                                        !.ops = @ \cup {"execute"}])
          ELSE /\ Goto(p, Done([h[p] EXCEPT !.ops = @ \cup {"execute"},
                                            !.error = "execute"], "payout_failed"))
               /\ UNCHANGED <<chain, txCount>>
    /\ UNCHANGED <<store, started, casTrue, credited>>

\* Variant of executePayout with a plausible fault: a failed wait for the
\* receipt is caught and the payouts are recorded all the same
pay_wait_ignoresFailure(p) ==
    /\ h[p].pc = "pay_wait"
    /\ \E ok \in BOOLEAN :
          Goto(p, [h[p] EXCEPT !.pc = "recordPayout", !.confirmed = ok])
    /\ UNCHANGED <<store, chain, txCount, started, casTrue, transfers, credited>>

\* executePayout: await waitForTransactionReceipt and the delay of one second
pay_wait(p) ==
    /\ h[p].pc = "pay_wait"
    /\ \E ok \in BOOLEAN :
          IF ok
          THEN Goto(p, [h[p] EXCEPT !.pc = "recordPayout", !.confirmed = TRUE])
          ELSE Goto(p, Done([h[p] EXCEPT !.error = "receipt"], "payout_failed"))
    /\ UNCHANGED <<store, chain, txCount, started, casTrue, transfers, credited>>

\* Database.recordPayout, the row it inserts
PayoutRow(g, e, tx) ==
    [gameId |-> g, token |-> e.token, amount |-> e.amount, txHash |-> tx,
     status |-> "success"]

\* executePayout: await db.recordPayout for the entry of the plan
recordPayout(p) ==
    /\ h[p].pc = "recordPayout"
    /\ payouts' = payouts \cup {PayoutRow(h[p].game, h[p].plan[1], h[p].tx)}
    /\ Goto(p, [h[p] EXCEPT !.pc = "announce_buildPayoutPlan",
                            !.ops = @ \cup {"recordPayout"}])
    /\ UNCHANGED <<games, counters, guesses, pools, deposits, eligible, chain,
                   txCount, started, casTrue, transfers, credited>>

\* processGuess: the plan handed to announceWinner is await buildPayoutPlan,
\* computed after executePayout has returned
announce_buildPayoutPlan(p) ==
    /\ h[p].pc = "announce_buildPayoutPlan"
    /\ \E ok \in BOOLEAN :
          Goto(p, [h[p] EXCEPT !.pc = "getWordDefinition",
                               !.prize = buildPayoutPlan(ok, chain)])
    /\ UNCHANGED <<store, chain, txCount, started, casTrue, transfers, credited>>

\* Variant of getWordDefinition with a plausible fault: a failed lookup is
\* not caught and ends the handler in the catch of processGuess
getWordDefinition_throws(p) ==
    /\ h[p].pc = "getWordDefinition"
    /\ \E found \in BOOLEAN :
          IF found
          THEN Goto(p, [h[p] EXCEPT !.pc = "announceWinner", !.definition = "text"])
          ELSE Goto(p, Done([h[p] EXCEPT !.error = "getWordDefinition"],
                            "payout_failed"))
    /\ UNCHANGED <<store, chain, txCount, started, casTrue, transfers, credited>>

\* announceWinner: const definition = await getWordDefinition(game.targetWord);
\* the lookup answers with a definition, or with null when the response is not
\* ok, holds no definition, or the fetch throws
getWordDefinition(p) ==
    /\ h[p].pc = "getWordDefinition"
    /\ \E found \in BOOLEAN :
          Goto(p, [h[p] EXCEPT !.pc = "announceWinner",
                               !.definition = IF found THEN "text" ELSE "null"])
    /\ UNCHANGED <<store, chain, txCount, started, casTrue, transfers, credited>>

\* Variant of announceWinner with a plausible fault: a failed announcement
\* reopens the game
announceWinner_reopens(p) ==
    /\ h[p].pc = "announceWinner"
    /\ \E sent \in BOOLEAN :
          IF sent
          THEN /\ Goto(p, [h[p] EXCEPT !.pc = "createGame_select", !.ctx = "win",
                                       !.reply = "winner",
                                       !.ops = @ \cup {"startNewGame"}])
               /\ UNCHANGED games
          ELSE /\ Goto(p, Done([h[p] EXCEPT !.error = "announceWinner"],
                               "payout_failed"))
               /\ games' = [games EXCEPT ![h[p].game].state = "ACTIVE",
                                         ![h[p].game].winnerUserId = NoId]
    /\ UNCHANGED <<counters, guesses, pools, deposits, payouts, eligible, chain,
                   txCount, started, casTrue, transfers, credited>>

\* announceWinner: await bot.sendMessage with the winner, the word, the
\* definition when there is one, the prize and the transaction; when it throws
\* the handler reports a failed payout
announceWinner(p) ==
    /\ h[p].pc = "announceWinner"
    /\ \E sent \in BOOLEAN :
          IF sent
          THEN Goto(p, [h[p] EXCEPT !.pc = "createGame_select", !.ctx = "win",
                                    !.reply = "winner",
                                    !.ops = @ \cup {"startNewGame"}])
          ELSE Goto(p, Done([h[p] EXCEPT !.error = "announceWinner"],
                            "payout_failed"))
    /\ UNCHANGED <<store, chain, txCount, started, casTrue, transfers, credited>>

\* startNewGame: the new-game message is sent (formatPool reads only)
startNewGame_send(p) ==
    /\ h[p].pc = "startNewGame_send"
    /\ \E sent \in BOOLEAN :
          IF ~sent THEN Goto(p, CreateGameThrows(h[p]))
          ELSE IF h[p].ctx = "win" THEN Goto(p, Done(h[p], "winner"))
          ELSE IF h[p].cur # NoGame
          THEN Goto(p, [h[p] EXCEPT !.pc = "rollover_setGameState"])
          ELSE Goto(p, [h[p] EXCEPT !.pc = "rollover_send"])
    /\ UNCHANGED <<store, chain, txCount, started, casTrue, transfers, credited>>

\* -------------------------------------------------- /config, rolloverToNewGame
\* onSlashCommand('config'): await hasAdminPermission, then the action
onSlashCommand_config(p) ==
    /\ CanStart(p)
    /\ \E c \in Channels, isAdmin \in BOOLEAN, action \in {"reset", "help"} :
          IF ~isAdmin
          THEN Goto(p, Done([Idle EXCEPT !.kind = "config"], "admin_required"))
          ELSE IF action # "reset"
          THEN Goto(p, Done([Idle EXCEPT !.kind = "config"], "admin_commands"))
          ELSE Goto(p, [Idle EXCEPT !.pc = "rollover_getCurrentGame",
                                    !.kind = "config", !.chan = c])
    /\ started' = started + 1
    /\ UNCHANGED <<store, chain, txCount, casTrue, transfers, credited>>

\* rolloverToNewGame: await db.getCurrentGame, then startNewGame
rollover_getCurrentGame(p) ==
    /\ h[p].pc = "rollover_getCurrentGame"
    /\ Goto(p, [h[p] EXCEPT !.pc = "createGame_select", !.ctx = "rollover",
                            !.cur = getCurrentGame(h[p].chan)])
    /\ UNCHANGED <<store, chain, txCount, started, casTrue, transfers, credited>>

\* rolloverToNewGame: await db.setGameState(current.id, 'PAYOUT_PENDING')
rollover_setGameState(p) ==
    /\ h[p].pc = "rollover_setGameState"
    /\ games' = setGameState(games, h[p].cur, "PAYOUT_PENDING")
    /\ Goto(p, [h[p] EXCEPT !.pc = "rollover_getPoolTokens"])
    /\ UNCHANGED <<counters, guesses, pools, deposits, payouts, eligible, chain,
                   txCount, started, casTrue, transfers, credited>>

\* The loop over the tokens of the old pool goes on with `toks`
rollover_loop(f, toks) ==
    IF Len(toks) = 0
    THEN [f EXCEPT !.pc = "rollover_send", !.toks = <<>>]
    ELSE [f EXCEPT !.pc = "rollover_getPoolBalance", !.toks = toks]

\* rolloverToNewGame: await db.getPoolTokens(current.id)
rollover_getPoolTokens(p) ==
    /\ h[p].pc = "rollover_getPoolTokens"
    /\ Goto(p, rollover_loop(h[p], getPoolTokens(h[p].cur)))
    /\ UNCHANGED <<store, chain, txCount, started, casTrue, transfers, credited>>

\* rolloverToNewGame: await db.getPoolBalance(current.id, token)
rollover_getPoolBalance(p) ==
    /\ h[p].pc = "rollover_getPoolBalance"
    /\ LET amount == getPoolBalance(h[p].cur, Head(h[p].toks))
       IN  IF amount > 0
           THEN Goto(p, [h[p] EXCEPT !.pc = "rollover_getPool", !.amt = amount])
           ELSE Goto(p, rollover_loop(h[p], Tail(h[p].toks)))
    /\ UNCHANGED <<store, chain, txCount, started, casTrue, transfers, credited>>

\* rolloverToNewGame: db.addToPool(newGame.id, token, amount), its getPool
rollover_getPool(p) ==
    /\ h[p].pc = "rollover_getPool"
    /\ Goto(p, [h[p] EXCEPT !.pc = "rollover_addToPool",
                            !.existing = getPool(h[p].created, Head(h[p].toks))])
    /\ UNCHANGED <<store, chain, txCount, started, casTrue, transfers, credited>>

\* rolloverToNewGame: db.addToPool, its update or insert; a throw ends the
\* handler, which catches nothing
rollover_addToPool(p) ==
    /\ h[p].pc = "rollover_addToPool"
    /\ LET g == h[p].created
           t == Head(h[p].toks)
       IN  IF addToPool_throws(g, t, h[p].existing)
           THEN /\ Goto(p, Done(h[p], "error"))
                /\ UNCHANGED <<pools, credited>>
           ELSE /\ pools' = addToPool_write(pools, g, t, h[p].existing, h[p].amt)
                /\ credited' = [credited EXCEPT ![g] = @ + h[p].amt]
                /\ Goto(p, rollover_loop([h[p] EXCEPT !.amt = 0, !.existing = NoRow,
                                                      !.rolled = @ + h[p].amt],
                                         Tail(h[p].toks)))
    /\ UNCHANGED <<games, counters, guesses, deposits, payouts, eligible, chain,
                   txCount, started, casTrue, transfers>>

\* rolloverToNewGame: the rollover message; /config: the round-ended message
rollover_send(p) ==
    /\ h[p].pc = "rollover_send"
    /\ IF h[p].rolled > 0
       THEN Goto(p, Done(h[p], "rolled_over"))
       ELSE Goto(p, Done(h[p], "no_funds_to_roll"))
    /\ UNCHANGED <<store, chain, txCount, started, casTrue, transfers, credited>>

\* The handler has returned and its detached tasks have ended
Return(p) ==
    /\ h[p].pc = "done"
    /\ h[p].dep \in {"none", "done", "failed"}
    /\ \A k \in 1..2 : h[p].el[k] \in {"none", "done", "failed"}
    /\ Goto(p, Idle)
    /\ UNCHANGED <<store, chain, txCount, started, casTrue, transfers, credited>>

Step(p) ==
    \/ getOrCreateGame_getCurrentGame(p)
    \/ createGame_select(p)
    \/ createGame_counter(p)
    \/ createGame_insert(p)
    \/ sync_getPoolTokens(p)
    \/ sync_getBalance(p)
    \/ sync_getPool(p)
    \/ sync_addToPool(p)
    \/ onSlashCommand_pool(p)
    \/ onTip(p)
    \/ onTip_deposit(p)
    \/ onTip_send(p)
    \/ addDeposit_insert(p)
    \/ addDeposit_getPool(p)
    \/ addDeposit_addToPool(p)
    \/ \E k \in 1..2 : addEligiblePlayer(p, k)
    \/ status_send(p)
    \/ onSlashCommand_guess(p)
    \/ isEligiblePlayer_select(p)
    \/ isEligiblePlayer_getDeposits(p)
    \/ addGuess(p)
    \/ getUserGuesses(p)
    \/ cas_getGame(p)
    \/ cas_update(p)
    \/ pay_getSmartAccount(p)
    \/ pay_buildPayoutPlan(p)
    \/ pay_execute(p)
    \/ pay_wait(p)
    \/ recordPayout(p)
    \/ announce_buildPayoutPlan(p)
    \/ getWordDefinition(p)
    \/ announceWinner(p)
    \/ startNewGame_send(p)
    \/ onSlashCommand_config(p)
    \/ rollover_getCurrentGame(p)
    \/ rollover_setGameState(p)
    \/ rollover_getPoolTokens(p)
    \/ rollover_getPoolBalance(p)
    \/ rollover_getPool(p)
    \/ rollover_addToPool(p)
    \/ rollover_send(p)
    \/ Return(p)

Next == \E p \in Procs : Step(p)

\* The bot from its first start: any handlers, interleaved at their awaits
Spec == Init /\ [][Next]_vars

\* ------------------------------------------------ handlers one after another
\* Handler 1 alone: every handler, with its detached tasks, ends before the
\* next one starts
NextSeq == Step(1)

SpecSeq == Init /\ [][NextSeq]_vars

\* ------------------------------------ handlers one after another, two channels
InitWide ==
    /\ games = <<>>
    /\ counters = [c \in 1..NumChannelsWide |-> 0]
    /\ guesses = EmptyBag
    /\ pools = [g \in GameIds |-> [t \in Tokens |-> NoRow]]
    /\ deposits = EmptyBag
    /\ payouts = {}
    /\ eligible = {}
    /\ chain = 0
    /\ txCount = 0
    /\ h = [p \in Procs |-> Idle]
    /\ started = 0
    /\ casTrue = [g \in GameIds |-> 0]
    /\ transfers = [g \in GameIds |-> 0]
    /\ credited = [g \in GameIds |-> 0]

SpecWide == InitWide /\ [][NextSeq]_vars

\* ------------------------------------------------------ guesses on a funded game
\* The store after tips of both users, one after the other, to the first game
\* of the channel: syncWalletBalanceToPool credited the first tip when its
\* balance read succeeded (synced)
TippedStore(synced) ==
    /\ games = <<NewGameRow(1, Word("c","r","a","n","e"), 1)>>
    /\ counters = [c \in 1..NumChannels |-> IF c = 1 THEN 1 ELSE 0]
    /\ guesses = EmptyBag
    /\ pools = [g \in GameIds |-> [t \in Tokens |->
                  IF g = 1 /\ t = NATIVE
                  THEN (IF synced THEN 3 * MaxTip ELSE 2 * MaxTip) ELSE NoRow]]
    /\ deposits = SetToBag({[gameId |-> 1, sender |-> senderAddressOf[u],
                             token |-> NATIVE, amount |-> MaxTip] : u \in Users})
    /\ payouts = {}
    /\ eligible = {<<1, toLowerCase(userIdOf[u])>> : u \in Users}
                     \cup {<<1, toLowerCase(senderAddressOf[u])>> : u \in Users}
    /\ chain = 2 * MaxTip
    /\ credited = [g \in GameIds |-> IF g = 1 /\ synced THEN MaxTip ELSE 0]

InitLock ==
    /\ \E synced \in BOOLEAN : TippedStore(synced)
    /\ txCount = 0
    /\ h = [p \in Procs |-> Idle]
    /\ started = 0
    /\ casTrue = [g \in GameIds |-> 0]
    /\ transfers = [g \in GameIds |-> 0]

\* Only guesses arrive
StepLock(p) ==
    \/ onSlashCommand_guess(p)
    \/ getOrCreateGame_getCurrentGame(p)
    \/ createGame_select(p)
    \/ createGame_counter(p)
    \/ createGame_insert(p)
    \/ sync_getPoolTokens(p)
    \/ sync_getBalance(p)
    \/ sync_getPool(p)
    \/ sync_addToPool(p)
    \/ isEligiblePlayer_select(p)
    \/ isEligiblePlayer_getDeposits(p)
    \/ addGuess(p)
    \/ getUserGuesses(p)
    \/ cas_getGame(p)
    \/ cas_update(p)
    \/ pay_getSmartAccount(p)
    \/ pay_buildPayoutPlan(p)
    \/ pay_execute(p)
    \/ pay_wait(p)
    \/ recordPayout(p)
    \/ announce_buildPayoutPlan(p)
    \/ getWordDefinition(p)
    \/ announceWinner(p)
    \/ startNewGame_send(p)
    \/ Return(p)

NextLock == \E p \in Procs : StepLock(p)

SpecLock == InitLock /\ [][NextLock]_vars

\* ------------------------------------------------------------- tips only
\* Tips arrive one after another; the calls of addEligiblePlayer that a tip
\* starts run statement by statement, interleaved with one another and with
\* the rest of the handler
StepMark(p) ==
    \/ onTip(p)
    \/ getOrCreateGame_getCurrentGame(p)
    \/ createGame_select(p)
    \/ createGame_counter(p)
    \/ createGame_insert(p)
    \/ sync_getPoolTokens(p)
    \/ sync_getBalance(p)
    \/ sync_getPool(p)
    \/ sync_addToPool(p)
    \/ onTip_deposit(p)
    \/ onTip_send(p)
    \/ addDeposit_insert(p)
    \/ addDeposit_getPool(p)
    \/ addDeposit_addToPool(p)
    \/ \E k \in 1..2 : addEligiblePlayer_select(p, k)
    \/ \E k \in 1..2 : addEligiblePlayer_insert(p, k)
    \/ Return(p)

NextMark == \E p \in Procs : StepMark(p)

SpecMark == Init /\ [][NextMark]_vars

\* ------------------------------------- buildPayoutPlan of index.ts on its own
\* buildPayoutPlan of src/index.ts: for each token of the game's pool, in the
\* order of getPoolTokens, the tracked balance and the actual balance are
\* read; reads[t] is the actual balance of token t, or ReadFails when the read
\* throws (ReadFails).  The variant with a plausible fault stops at the first failed read.
\* The outcome of a balance read that throws
ReadFails == 0 - 1

RECURSIVE index_buildPayoutPlan_stops(_, _, _)
index_buildPayoutPlan_stops(toks, g, reads) ==
    IF toks = <<>> THEN <<>>
    ELSE LET token == Head(toks)
             tracked == getPoolBalance(g, token)
         IN  IF reads[token] = ReadFails THEN <<>>
             ELSE LET amount == IF reads[token] < tracked THEN reads[token] ELSE tracked
                  IN  (IF amount > 0 THEN <<[token |-> token, amount |-> amount]>>
                       ELSE <<>>)
                      \o index_buildPayoutPlan_stops(Tail(toks), g, reads)

RECURSIVE index_buildPayoutPlan(_, _, _)
index_buildPayoutPlan(toks, g, reads) ==
    IF toks = <<>> THEN <<>>
    ELSE LET token == Head(toks)
             tracked == getPoolBalance(g, token)
             rest == index_buildPayoutPlan(Tail(toks), g, reads)
         IN  IF reads[token] = ReadFails THEN rest
             ELSE LET amount == IF reads[token] < tracked THEN reads[token] ELSE tracked
                  IN  IF amount > 0
                      THEN <<[token |-> token, amount |-> amount]>> \o rest
                      ELSE rest

\* Game 1 is locked for its winner; its pool tracks any balances of the two
\* tokens, the custody address holds any balances, and any of the two reads
\* may fail
InitPlanIndex ==
    /\ games = << [NewGameRow(1, Word("c","r","a","n","e"), 1)
                      EXCEPT !.state = "PAYOUT_PENDING", !.winnerUserId = "0xAA",
                             !.wonAt = "now"] >>
    /\ counters = [c \in 1..NumChannels |-> IF c = 1 THEN 1 ELSE 0]
    /\ guesses = EmptyBag
    /\ \E tr \in [Tokens -> {NoRow} \cup 1..MaxBalance] :
          pools = [g \in GameIds |-> [t \in Tokens |-> IF g = 1 THEN tr[t] ELSE NoRow]]
    /\ deposits = EmptyBag
    /\ payouts = {}
    /\ eligible = {<<1, "0xaa">>}
    /\ chain \in 0..MaxBalance
    /\ txCount = 0
    /\ \E rd \in [Tokens -> {ReadFails} \cup 0..MaxBalance] :
          /\ rd[NATIVE] \in {ReadFails, chain}
          /\ h = [p \in Procs |->
                    IF p = 1
                    THEN [Idle EXCEPT !.pc = "index_buildPayoutPlan", !.kind = "guess",
                                      !.chan = 1, !.user = "0xAA", !.game = 1,
                                      !.gstate = "ACTIVE", !.reads = rd]
                    ELSE Idle]
    /\ started = 1
    /\ casTrue = [g \in GameIds |-> IF g = 1 THEN 1 ELSE 0]
    /\ transfers = [g \in GameIds |-> 0]
    /\ credited = [g \in GameIds |-> 0]

\* executePayout of src/index.ts: const plan = await buildPayoutPlan(game)
index_executePayout(p) ==
    /\ h[p].pc = "index_buildPayoutPlan"
    /\ Goto(p, Done([h[p] EXCEPT !.plan = index_buildPayoutPlan(
                                             getPoolTokens(h[p].game), h[p].game,
                                             h[p].reads)],
                    "plan"))
    /\ UNCHANGED <<store, chain, txCount, started, casTrue, transfers, credited>>

NextPlanIndex == index_executePayout(1)

SpecPlanIndex == InitPlanIndex /\ [][NextPlanIndex]_vars

\* ---------------------------------------------------- computeFeedback on its own
\* The words computeFeedback is applied to: every word of five letters over
\* FeedbackLetters, four words of five different letters, words with capital
\* letters, and words that are shorter or longer than five letters
FeedbackLetters == {"a", "b", "c"}

FeedbackWords ==
    {<<w[1], w[2], w[3], w[4], w[5]>> : w \in [1..5 -> FeedbackLetters]}
    \cup { Word("a","b","c","d","e"), Word("e","d","c","b","a"),
           Word("c","r","a","n","e"), Word("g","r","a","c","e"),
           Word("A","b","c","d","e"), Word("C","R","A","N","E"),
           Word("a","A","b","B","b"),
           <<"a","b">>, <<"a","b","c","a","b","c">> }

\* A guess of any of the words against a game with any of them as its target
InitFeedback ==
    /\ \E target \in FeedbackWords : games = <<NewGameRow(1, target, 1)>>
    /\ counters = [c \in 1..NumChannels |-> IF c = 1 THEN 1 ELSE 0]
    /\ guesses = EmptyBag
    /\ pools = [g \in GameIds |-> [t \in Tokens |-> NoRow]]
    /\ deposits = EmptyBag
    /\ payouts = {}
    /\ eligible = {}
    /\ chain = 0
    /\ txCount = 0
    /\ \E guess \in FeedbackWords :
          h = [p \in Procs |->
                 IF p = 1
                 THEN [Idle EXCEPT !.pc = "computeFeedback", !.kind = "guess",
                                   !.chan = 1, !.game = 1, !.gstate = "ACTIVE",
                                   !.guess = guess]
                 ELSE Idle]
    /\ started = 1
    /\ casTrue = [g \in GameIds |-> 0]
    /\ transfers = [g \in GameIds |-> 0]
    /\ credited = [g \in GameIds |-> 0]

\* processGuess: const feedback = computeFeedback(cleanGuess, game.targetWord)
processGuess_computeFeedback(p) ==
    /\ h[p].pc = "computeFeedback"
    /\ LET feedback == computeFeedback(h[p].guess, games[h[p].game].targetWord)
       IN  IF feedback = WordsMustBe5Letters
           THEN Goto(p, Done([h[p] EXCEPT !.error = "computeFeedback"], "error"))
           ELSE Goto(p, Done([h[p] EXCEPT !.feedback = feedback], "feedback"))
    /\ UNCHANGED <<store, chain, txCount, started, casTrue, transfers, credited>>

NextFeedback == processGuess_computeFeedback(1)

SpecFeedback == InitFeedback /\ [][NextFeedback]_vars

\* ----------------------------------------------------- getLeaderboard on its own
\* The space of a channel: channels 1 and 2 are in one space, 3 in another
SpaceOf(c) == (c + 1) \div 2

\* Database.getUserGuesses(g, u).length
RECURSIVE CountRows(_, _)
CountRows(S, bag) ==
    IF S = {} THEN 0
    ELSE LET r == CHOOSE x \in S : TRUE
         IN  bag[r] + CountRows(S \ {r}, bag)

UserGuessCount(g, u) ==
    CountRows({r \in BagToSet(guesses) : r.gameId = g /\ r.userId = u}, guesses)

\* getLeaderboard: the amounts of the success payouts of game g, summed
RECURSIVE SumPayouts(_)
SumPayouts(S) ==
    IF S = {} THEN 0
    ELSE LET r == CHOOSE x \in S : TRUE
         IN  r.amount + SumPayouts(S \ {r})

SuccessWinnings(g) ==
    SumPayouts({r \in payouts : r.gameId = g /\ r.status = "success"})

\* getLeaderboard: the games of the space with a winner, in the order of the
\* table
WinnerGames(space) ==
    SelectSeq([g \in 1..Len(games) |-> g],
              LAMBDA g : SpaceOf(games[g].channelId) = space
                         /\ games[g].winnerUserId # NoId)

\* getLeaderboard: the loop over the games; entries is the Map so far, in its
\* insertion order
RECURSIVE leaderboard_loop(_, _)
leaderboard_loop(gs, entries) ==
    IF gs = <<>> THEN entries
    ELSE LET g == Head(gs)
             w == games[g].winnerUserId
             at == {i \in 1..Len(entries) : entries[i].userId = w}
             old == IF at = {}
                    THEN [userId |-> w, wins |-> 0, totalGuesses |-> 0,
                          totalWinnings |-> 0]
                    ELSE entries[CHOOSE i \in at : TRUE]
             new == [old EXCEPT !.wins = @ + 1,
                                !.totalGuesses = @ + UserGuessCount(g, w),
                                !.totalWinnings = @ + SuccessWinnings(g)]
         IN  leaderboard_loop(Tail(gs),
                              IF at = {} THEN Append(entries, new)
                              ELSE [entries EXCEPT ![CHOOSE i \in at : TRUE] = new])

\* Variant of the comparator with a plausible fault: the winnings are not
\* compared
leaderboard_compare_winsOnly(a, b) == b.wins - a.wins

\* getLeaderboard: the comparator handed to sort
leaderboard_compare(a, b) ==
    IF b.wins # a.wins THEN b.wins - a.wins
    ELSE b.totalWinnings - a.totalWinnings

\* Array.prototype.sort, which is stable: e goes before the first entry that
\* the comparator puts after it
RECURSIVE leaderboard_insert(_, _)
leaderboard_insert(sorted, e) ==
    IF sorted = <<>> THEN <<e>>
    ELSE IF leaderboard_compare(Head(sorted), e) > 0 THEN <<e>> \o sorted
    ELSE <<Head(sorted)>> \o leaderboard_insert(Tail(sorted), e)

RECURSIVE leaderboard_sort(_, _)
leaderboard_sort(entries, sorted) ==
    IF entries = <<>> THEN sorted
    ELSE leaderboard_sort(Tail(entries), leaderboard_insert(sorted, Head(entries)))

\* Database.getLeaderboard(spaceId, limit)
getLeaderboard(space, limit) ==
    LET sorted == leaderboard_sort(leaderboard_loop(WinnerGames(space), <<>>), <<>>)
    IN  SubSeq(sorted, 1, Min({limit, Len(sorted)}))

\* The winners of the drawn stores, and the channels their games are in
BoardWinners == {"0xAA", "0xBB"}
NumChannelsBoard == 3
MaxLimit == 2

\* MaxGames games have been played in the channels: each was won by one of
\* two users at their first or second guess and paid or not, or ended without
\* a winner; /leaderboard is asked in one of the channels
InitLeaderboard ==
    /\ \E ch \in [GameIds -> 1..NumChannelsBoard],
          w \in [GameIds -> {NoId} \cup BoardWinners],
          n \in [GameIds -> 1..2],
          pay \in [GameIds -> 0..MaxTip] :
          LET last(g) == \A g2 \in GameIds : g2 > g => ch[g2] # ch[g]
              other(g) == IF w[g] = "0xAA" THEN "0xBB" ELSE "0xAA"
          IN  /\ games = [g \in GameIds |->
                    [NewGameRow(ch[g], Word("c","r","a","n","e"),
                                Cardinality({g2 \in 1..g : ch[g2] = ch[g]}))
                       EXCEPT !.state = IF w[g] = NoId /\ last(g) THEN "ACTIVE"
                                        ELSE "PAYOUT_PENDING",
                              !.winnerUserId = w[g],
                              !.wonAt = IF w[g] = NoId THEN "null" ELSE "now"]]
              /\ counters = [c \in 1..NumChannelsBoard |->
                                Cardinality({g \in GameIds : ch[g] = c})]
              /\ guesses = SetToBag(
                     {[gameId |-> g, userId |-> w[g], guess |-> Word("c","r","a","n","e")] :
                         g \in {x \in GameIds : w[x] # NoId}}
                     \cup {[gameId |-> g, userId |-> w[g], guess |-> Word("g","r","a","c","e")] :
                         g \in {x \in GameIds : w[x] # NoId /\ n[x] = 2}}
                     \cup {[gameId |-> g, userId |-> other(g), guess |-> Word("g","r","a","c","e")] :
                         g \in {x \in GameIds : n[x] = 2}})
              /\ payouts = {PayoutRow(g, [token |-> NATIVE, amount |-> pay[g]], g) :
                               g \in {x \in GameIds : w[x] # NoId /\ pay[x] > 0}}
    /\ pools = [g \in GameIds |-> [t \in Tokens |-> NoRow]]
    /\ deposits = EmptyBag
    /\ eligible = {}
    /\ chain = 0
    /\ txCount = MaxGames
    /\ \E c \in 1..NumChannelsBoard, limit \in 1..MaxLimit :
          h = [p \in Procs |->
                 IF p = 1
                 THEN [Idle EXCEPT !.pc = "getLeaderboard", !.kind = "leaderboard",
                                   !.chan = c, !.limit = limit]
                 ELSE Idle]
    /\ started = 1
    /\ casTrue = [g \in GameIds |-> 0]
    /\ transfers = [g \in GameIds |-> 0]
    /\ credited = [g \in GameIds |-> 0]

\* onSlashCommand('leaderboard'): const entries = await db.getLeaderboard
onSlashCommand_leaderboard(p) ==
    /\ h[p].pc = "getLeaderboard"
    /\ LET entries == getLeaderboard(SpaceOf(h[p].chan), h[p].limit)
       IN  Goto(p, Done([h[p] EXCEPT !.entries = entries],
                        IF entries = <<>> THEN "no_winners" ELSE "leaderboard"))
    /\ UNCHANGED <<store, chain, txCount, started, casTrue, transfers, credited>>

NextLeaderboard == onSlashCommand_leaderboard(1)

SpecLeaderboard == InitLeaderboard /\ [][NextLeaderboard]_vars

\* --------------------------------------------------- isEligiblePlayer on its own
\* Game 1 was ended by a rollover and game 2 is the current game.  Any of the
\* rows that tips to the two games leave behind may be there: eligibility
\* rows and deposit rows are written by separate calls that onTip does not
\* await.  Two guess handlers are about to ask whether their user is
\* eligible for the game they read, each while it was ACTIVE.
EligibleRows == {<<g, toLowerCase(id)>> :
                    g \in 1..2, id \in {userIdOf[u] : u \in Users}
                                      \cup {senderAddressOf[u] : u \in Users}}
DepositRows == {[gameId |-> g, sender |-> senderAddressOf[u], token |-> NATIVE,
                 amount |-> MaxTip] : g \in 1..2, u \in Users}

InitElig ==
    /\ games = << [NewGameRow(1, Word("c","r","a","n","e"), 1)
                      EXCEPT !.state = "PAYOUT_PENDING"],
                  NewGameRow(1, Word("c","r","a","n","e"), 2) >>
    /\ counters = [c \in 1..NumChannels |-> IF c = 1 THEN 2 ELSE 0]
    /\ guesses = EmptyBag
    /\ pools = [g \in GameIds |-> [t \in Tokens |-> NoRow]]
    /\ \E ds \in SUBSET DepositRows : deposits = SetToBag(ds)
    /\ payouts = {}
    /\ eligible \in SUBSET EligibleRows
    /\ chain = MaxTip * Cardinality(BagToSet(deposits))
    /\ txCount = 0
    /\ h \in [Procs -> {[Idle EXCEPT !.pc = "isEligiblePlayer_select",
                                      !.kind = "guess", !.chan = 1,
                                      !.game = g, !.gstate = "ACTIVE"] : g \in 1..2}]
    /\ started = NumProcs
    /\ casTrue = [g \in GameIds |-> 0]
    /\ transfers = [g \in GameIds |-> 0]
    /\ credited = [g \in GameIds |-> 0]

NextElig ==
    \E p \in Procs : isEligiblePlayer_select(p) \/ isEligiblePlayer_getDeposits(p)

SpecElig == InitElig /\ [][NextElig]_vars

\* --------------------------------------------------- buildPayoutPlan on its own
\* The winner's handler is about to build the plan of game 1: the pool of the
\* game tracks `tracked` (NoRow: no pool row) and bot.appAddress holds `actual`
InitPlan ==
    /\ \E tracked \in {NoRow} \cup 1..MaxBalance, actual \in 0..MaxBalance :
          /\ pools = [g \in GameIds |-> [t \in Tokens |->
                        IF g = 1 /\ t = NATIVE THEN tracked ELSE NoRow]]
          /\ chain = actual
    /\ games = casToPayoutPending_set(
                   <<NewGameRow(1, Word("c","r","a","n","e"), 1)>>, 1, userIdOf["u1"])
    /\ counters = [c \in 1..NumChannels |-> IF c = 1 THEN 1 ELSE 0]
    /\ guesses = SetToBag({[gameId |-> 1, userId |-> userIdOf["u1"],
                            guess |-> Word("c","r","a","n","e")]})
    /\ deposits = EmptyBag
    /\ payouts = {}
    /\ eligible = {<<1, toLowerCase(userIdOf["u1"])>>}
    /\ txCount = 0
    /\ h = [p \in Procs |->
              IF p = 1
              THEN [Idle EXCEPT !.pc = "pay_buildPayoutPlan", !.kind = "guess",
                                !.chan = 1, !.user = userIdOf["u1"], !.game = 1,
                                !.gstate = "ACTIVE",
                                !.guess = Word("c","r","a","n","e")]
              ELSE Idle]
    /\ started = 1
    /\ casTrue = [g \in GameIds |-> IF g = 1 THEN 1 ELSE 0]
    /\ transfers = [g \in GameIds |-> 0]
    /\ credited = [g \in GameIds |-> 0]

NextPlan == pay_buildPayoutPlan(1)

SpecPlan == InitPlan /\ [][NextPlan]_vars

\* ================================================================== claims
\* Sum of r.amount over the rows of S, each counted mult[r] times
RECURSIVE SumAmounts(_, _)
SumAmounts(S, mult) ==
    IF S = {} THEN 0
    ELSE LET r == CHOOSE x \in S : TRUE
         IN  r.amount * mult[r] + SumAmounts(S \ {r}, mult)

\* Sum of the Deposits recorded for (g, t)
DepositSum(g, t) ==
    SumAmounts({d \in BagToSet(deposits) : d.gameId = g /\ d.token = t}, deposits)

\* Sum of the success Payouts recorded for (g, t)
PayoutSum(g, t) ==
    LET rows == {r \in payouts : r.gameId = g /\ r.token = t /\ r.status = "success"}
    IN  SumAmounts(rows, [r \in rows |-> 1])

Games == 1..Len(games)

\* C1: of the casToPayoutPending calls made on a game, at most one returns
\* true (the others return false).
C1_OneCallReturnsTrue == \A g \in GameIds : casTrue[g] <= 1

\* C2: a step never changes or clears a winnerUserId that is set.
C2_WinnerNeverChanges ==
    [][\A g \in Games :
          games[g].winnerUserId # NoId
              => games'[g].winnerUserId = games[g].winnerUserId]_vars

\* C3: in every reachable state each channel has at most one ACTIVE game.
C3_OneActiveGamePerChannel ==
    \A c \in Channels : Cardinality(ActiveGames(c)) <= 1

\* C4: execute is issued at most once per game, and only after a
\* casToPayoutPending call on that game returned true.
C4_OneTransferPerGame ==
    \A g \in GameIds : transfers[g] <= 1 /\ (transfers[g] > 0 => casTrue[g] > 0)

\* C5: for every game and token the success Payouts recorded sum to no more
\* than the trackedBalance of the game's pool.
C5_PayoutsWithinTracked ==
    \A g \in Games : \A t \in Tokens : PayoutSum(g, t) <= getPoolBalance(g, t)

\* C6: every entry of the plan executePayout got from buildPayoutPlan is for
\* a token tracked in the game's pool and its amount is the minimum of the
\* trackedBalance and the balance actually held.
C6_PlanIsMinOfTrackedAndActual ==
    \A p \in Procs :
        h[p].pc = "pay_execute"
            => \A i \in 1..Len(h[p].plan) :
                  LET e == h[p].plan[i]
                  IN  /\ getPool(h[p].game, e.token) # NoRow
                      /\ e.amount = Min({getPool(h[p].game, e.token), chain})

\* C7: for every game and token the Deposits recorded sum to the
\* trackedBalance of the pool, whenever no handler is in flight.
C7_PoolConservation ==
    (\A p \in Procs : h[p].pc = "idle")
        => \A g \in Games : \A t \in Tokens : DepositSum(g, t) = getPoolBalance(g, t)

\* C8: no reachable state has a Deposit row whose amount the pool's
\* trackedBalance does not include yet: the pool is never below the
\* Deposits recorded for it.
C8_DepositNeverWithoutCredit ==
    \A g \in Games : \A t \in Tokens : DepositSum(g, t) <= getPoolBalance(g, t)

\* C9: when /config reset, run with no other handler in flight on a channel
\* whose current game G1 is ACTIVE, has sent its messages, G1 is
\* PAYOUT_PENDING with no winner, the game G2 it created is ACTIVE in the same
\* channel, the pool of G2 holds exactly the positive balances of the pool of
\* G1, and no transfer was issued for either game.
C9_RolloverMovesPool ==
    \A p \in Procs :
        (/\ h[p].pc = "done"
         /\ h[p].kind = "config"
         /\ h[p].reply \in {"rolled_over", "no_funds_to_roll"}
         /\ h[p].cur # NoGame)
            => LET G1 == h[p].cur
                   G2 == h[p].created
               IN  /\ games[G1].state = "PAYOUT_PENDING"
                   /\ games[G1].winnerUserId = NoId
                   /\ G2 \in Games /\ G2 # G1
                   /\ games[G2].state = "ACTIVE"
                   /\ games[G2].channelId = games[G1].channelId
                   /\ \A t \in Tokens :
                         IF getPoolBalance(G1, t) > 0
                         THEN getPool(G2, t) = getPool(G1, t)
                         ELSE getPool(G2, t) = NoRow
                   /\ transfers[G1] = 0 /\ transfers[G2] = 0
                   /\ PayoutSum(G1, NATIVE) = 0 /\ PayoutSum(G2, NATIVE) = 0

\* C9 witness: a rollover has moved a positive balance to the game it created
C9_Witness ==
    \E p \in Procs :
        /\ h[p].pc = "done" /\ h[p].kind = "config" /\ h[p].reply = "rolled_over"
        /\ h[p].cur # NoGame /\ h[p].rolled > 0
        /\ getPool(h[p].created, NATIVE) = h[p].rolled

\* C10: a step changes the state of a game only from ACTIVE to
\* PAYOUT_PENDING, so a game that is PAYOUT_PENDING stays so.
C10_OnlyActiveToPayoutPending ==
    [][\A g \in Games :
          games'[g].state # games[g].state
              => games[g].state = "ACTIVE" /\ games'[g].state = "PAYOUT_PENDING"]_vars

\* C10 witness: a game is PAYOUT_PENDING while a later game of its channel
\* takes a tip
C10_Witness ==
    \E g \in Games : \E d \in BagToSet(deposits) :
        games[g].state = "PAYOUT_PENDING" /\ d.gameId > g

\* C11: when the calls of createGame follow one another, the k-th game of a
\* channel has gameNumber k, whatever games other channels got in between; the
\* first game of every channel has gameNumber 1
C11_SequentialNumbering ==
    \A g \in Games :
       games[g].gameNumber =
          Cardinality({g2 \in 1..g : games[g2].channelId = games[g].channelId})

\* Channel 1 got its second game after channel 2 got its first
C11_Witness ==
    /\ Len(games) = 3
    /\ games[1].channelId = 1 /\ games[1].gameNumber = 1
    /\ games[2].channelId = 2 /\ games[2].gameNumber = 1
    /\ games[3].channelId = 1 /\ games[3].gameNumber = 2
\* C12: no two games of one channel have the same gameNumber, whatever the
\* interleaving of the createGame calls
C12_GameNumbersDistinct ==
    \A g1, g2 \in Games :
       g1 # g2 /\ games[g1].channelId = games[g2].channelId
          => games[g1].gameNumber # games[g2].gameNumber
\* C13 as stated: a correct guess whose casToPayoutPending returned false has
\* written nothing to the store, the Guess row included
C13_RaceLostMutatesNothing ==
    \A p \in Procs :
       h[p].reply = "too_late" => h[p].ops \subseteq {"casToPayoutPending"}

\* C13, amended: a correct guess whose casToPayoutPending returned false has
\* recorded its Guess row before the call, written nothing else, and ended
\* with the too-late response
C13_RaceLostWritesOnlyItsGuess ==
    \A p \in Procs :
       h[p].reply = "too_late"
          => /\ h[p].pc = "done"
             /\ h[p].ops = {"addGuess", "casToPayoutPending"}
             /\ GuessRow(h[p]) \in BagToSet(guesses)
             /\ h[p].tx = 0
             /\ games[h[p].game].state = "PAYOUT_PENDING"

\* A second correct guess came too late: another handler holds the lock
C13_Witness ==
    \E p \in Procs :
       /\ h[p].reply = "too_late"
       /\ isCorrect(computeFeedback(h[p].guess, games[h[p].game].targetWord))
       /\ games[h[p].game].winnerUserId # NoId
       /\ casTrue[h[p].game] = 1
\* C14: a guess rejected by validation (empty, not 5 letters once cleaned, or
\* not in the word list) makes processGuess write nothing: no Guess row is
\* added for it, casToPayoutPending is not called, and no Guess row of the
\* store ever holds a word validation rejects
C14_RejectedGuessMutatesNothing ==
    /\ \A p \in Procs :
          h[p].reply \in {"usage", "bad_length", "invalid_word"}
             => /\ h[p].pc = "done"
                /\ h[p].ops = {}
                /\ h[p].guess \notin WORD_LIST
                /\ GuessRow(h[p]) \notin BagToSet(guesses)
    /\ \A r \in BagToSet(guesses) : Len(r.guess) = 5 /\ r.guess \in WORD_LIST

\* An eligible user sent five letters that are no word of the list, and one
\* of the user's guesses is in the store
C14_Witness ==
    \E p \in Procs :
       /\ h[p].reply = "invalid_word"
       /\ Len(h[p].guess) = 5
       /\ \E r \in BagToSet(guesses) : r.userId = h[p].user /\ r.gameId = h[p].game
\* C15: whenever a Guess row is recorded, the game it is recorded for is
\* ACTIVE in the store at that moment: a guess that arrives late, after a
\* winning guess or a rollover, is rejected
C15_NoGuessOnPayoutPending ==
    [][\A r \in BagToSet(guesses' (-) guesses) :
          games[r.gameId].state = "ACTIVE"]_vars
\* C16: a user who is not eligible for the game is told to tip and records no
\* Guess; every Guess row is of a user eligible for its game, and a game's
\* winnerUserId, when set, is eligible for that game
C16_OnlyEligibleGuessAndWin ==
    /\ \A p \in Procs :
          h[p].reply = "must_tip" => h[p].pc = "done" /\ h[p].ops = {}
    /\ \A r \in BagToSet(guesses) : isEligiblePlayer(r.gameId, r.userId)
    /\ \A g \in Games :
          games[g].winnerUserId # NoId => isEligiblePlayer(g, games[g].winnerUserId)

\* A user who had not tipped was turned away from a game that the tipper won
C16_Witness ==
    \E p \in Procs :
       /\ h[p].reply = "must_tip"
       /\ ~isEligiblePlayer(h[p].game, h[p].user)
       /\ games[h[p].game].winnerUserId \notin {NoId, h[p].user}
\* C17: isEligiblePlayer(gameId, id) answers true exactly when the lowercased
\* id is in the game's eligible set or equals, whatever the case, the sender
\* of a Deposit of that same game
C17_EligibleIffMarkedOrSender ==
    \A p \in Procs :
       h[p].pc \notin {"isEligiblePlayer_select", "isEligiblePlayer_getDeposits"}
          => ((h[p].reply # "must_tip")
                <=> \/ \E e \in eligible :
                         e[1] = h[p].game /\ e[2] = toLowerCase(h[p].user)
                    \/ \E d \in BagToSet(deposits) :
                         /\ d.gameId = h[p].game
                         /\ toLowerCase(d.sender) = toLowerCase(h[p].user))

\* One user, never marked eligible, passed as the sender of a deposit of the
\* game; another was turned away although a deposit of the previous game
\* has that user as its sender
C17_Witness ==
    \E p, q \in Procs :
       /\ h[p].pc = "addGuess"
       /\ \A e \in eligible : e[2] # toLowerCase(h[p].user)
       /\ h[p].user # toLowerCase(h[p].user)
       /\ h[q].reply = "must_tip"
       /\ \E d \in BagToSet(deposits) :
             d.gameId # h[q].game /\ toLowerCase(d.sender) = toLowerCase(h[q].user)
\* Identifiers that differ only in the case of their letters
CaseClasses == {{"0xAA", "0xaa"}, {"0xBB", "0xbb"}, {"0xCc", "0xcc"}}
SameIgnoringCase(a, b) == a = b \/ \E c \in CaseClasses : a \in c /\ b \in c

\* The entries of the eligible set of game g for identifier id
EntriesFor(g, id) == {e \in eligible : e[1] = g /\ SameIgnoringCase(e[2], id)}

\* C18: however often addEligiblePlayer is called for a game with identifiers
\* that are equal up to case, the game's eligible set has at most one entry
\* for the identifier, and exactly one once a call has returned
C18_MarkEligibleIdempotent ==
    /\ \A g \in Games : \A e \in eligible : Cardinality(EntriesFor(g, e[2])) <= 1
    /\ \A p \in Procs : \A k \in 1..2 :
          h[p].el[k] \in {"done", "failed"}
             => Cardinality(EntriesFor(h[p].game, EligibleArg(h[p], k))) = 1

\* Both calls of a tip have returned; their identifiers differ in case only
C18_Witness ==
    \E p \in Procs :
       /\ h[p].el = <<"done", "done">>
       /\ h[p].user # h[p].sender
       /\ SameIgnoringCase(h[p].user, h[p].sender)
       /\ Cardinality(EntriesFor(h[p].game, h[p].user)) = 1
\* C19: once the tip handler has sent its tip-received message, the store
\* holds the Deposit of the tip, the pool of the game has been credited with
\* its amount, and the tipper's userId and senderAddress are both eligible
\* for the game
C19_ConfirmedTipIsRecorded ==
    \A p \in Procs :
       h[p].reply = "tip_received"
          => /\ DepositRow(h[p]) \in BagToSet(deposits)
             /\ h[p].dep = "done"
             /\ getPoolBalance(h[p].game, NATIVE) >= h[p].amount
             /\ <<h[p].game, toLowerCase(h[p].user)>> \in eligible
             /\ <<h[p].game, toLowerCase(h[p].sender)>> \in eligible
\* C20: when executePayout finds an empty plan it throws: the handler issues
\* no transfer, records no Payout and starts no new game, and answers that
\* the payout failed; the game stays PAYOUT_PENDING with a winner, and when
\* the handler is the only one that holds the lock, with this winner, no
\* transfer and no Payout
C20_EmptyPlanFails ==
    \A p \in Procs :
       h[p].error = "no_funds"
          => /\ h[p].pc = "done"
             /\ h[p].reply = "payout_failed"
             /\ h[p].ops = {"addGuess", "casToPayoutPending"}
             /\ h[p].tx = 0
             /\ games[h[p].game].state = "PAYOUT_PENDING"
             /\ games[h[p].game].winnerUserId # NoId
             /\ casTrue[h[p].game] = 1
                   => /\ games[h[p].game].winnerUserId = h[p].user
                      /\ transfers[h[p].game] = 0
                      /\ \A t \in Tokens : PayoutSum(h[p].game, t) = 0

\* The winner's executePayout found nothing to pay
C20_Witness ==
    \E p \in Procs :
       /\ h[p].error = "no_funds"
       /\ casTrue[h[p].game] = 1
       /\ games[h[p].game].winnerUserId = h[p].user
       /\ getCurrentGame(games[h[p].game].channelId) = NoGame
\* C21: a Payout row is recorded only by a handler whose transfer was
\* confirmed, with status success and the reference of that transfer, one
\* row per plan entry; a handler whose execute or whose wait for the receipt
\* failed records no Payout and leaves the game PAYOUT_PENDING, without any
\* Payout row when it is the only handler that holds the lock
C21_PayoutsOnlyAfterConfirmation ==
    [][/\ \A r \in payouts' \ payouts :
             \E p \in Procs :
                /\ h[p].pc = "recordPayout"
                /\ h[p].confirmed
                /\ r = PayoutRow(h[p].game, h[p].plan[1], h[p].tx)
                /\ r.status = "success"
       /\ \A r1, r2 \in payouts' :
             r1.txHash = r2.txHash /\ r1.token = r2.token => r1 = r2
       /\ \A p \in Procs :
             h'[p].error \in {"execute", "receipt"}
                => /\ h'[p].pc = "done"
                   /\ h'[p].reply = "payout_failed"
                   /\ "recordPayout" \notin h'[p].ops
                   /\ games'[h'[p].game].state = "PAYOUT_PENDING"
                   /\ \A r \in payouts' : r.txHash # h'[p].tx
                   /\ casTrue'[h'[p].game] = 1
                         => \A r \in payouts' : r.gameId # h'[p].game]_vars

\* The transfer of the only winner was sent and its confirmation failed
C21_Witness ==
    \E p \in Procs :
       /\ h[p].error = "receipt"
       /\ h[p].tx > 0
       /\ casTrue[h[p].game] = 1
       /\ games[h[p].game].state = "PAYOUT_PENDING"
       /\ \A r \in payouts : r.gameId # h[p].game
\* C22: when getSmartAccountFromUserId finds no account for the winner,
\* executePayout throws and processGuess catches it: the handler answers
\* that the payout failed, has issued no transfer, recorded no Payout and
\* started no new game, and the game stays PAYOUT_PENDING
C22_NoAccountIsSettlementFailure ==
    \A p \in Procs :
       h[p].error = "no_smart_account"
          => /\ h[p].pc = "done"
             /\ h[p].reply = "payout_failed"
             /\ h[p].ops = {"addGuess", "casToPayoutPending"}
             /\ h[p].tx = 0
             /\ h[p].plan = <<>>
             /\ games[h[p].game].state = "PAYOUT_PENDING"
             /\ games[h[p].game].winnerUserId # NoId
             /\ casTrue[h[p].game] = 1
                   => /\ transfers[h[p].game] = 0
                      /\ \A r \in payouts : r.gameId # h[p].game

\* The only winner has no smart account; the custody address holds the pool
C22_Witness ==
    \E p \in Procs :
       /\ h[p].error = "no_smart_account"
       /\ casTrue[h[p].game] = 1
       /\ games[h[p].game].winnerUserId = h[p].user
       /\ chain > 0
\* C23: after a settlement failure has left game G PAYOUT_PENDING with a
\* winner and no Payout, a rollover on G's channel credits every positive
\* tracked balance of G, the channel's last game, to the game it creates
C23_RolloverRecoversFailedSettlement ==
    \A p \in Procs :
       /\ h[p].kind = "config"
       /\ h[p].pc = "done"
       /\ h[p].reply \in {"rolled_over", "no_funds_to_roll"}
       => \A g \in Games :
             /\ g = h[p].created - 1
             /\ games[g].channelId = games[h[p].created].channelId
             /\ games[g].state = "PAYOUT_PENDING"
             /\ games[g].winnerUserId # NoId
             /\ \A r \in payouts : r.gameId # g
             => \A t \in Tokens :
                   getPoolBalance(g, t) > 0
                      => getPool(h[p].created, t) = getPoolBalance(g, t)
\* C24: buildPayoutPlan of index.ts always returns a plan; a token whose
\* actual balance cannot be read has no entry, and every other tracked token
\* has its entry, the smaller of tracked and actual, when that is positive
C24_UnreadableTokenIsSkipped ==
    \A p \in Procs :
       h[p].reply = "plan"
          => /\ h[p].pc = "done"
             /\ \A i \in 1..Len(h[p].plan) : h[p].reads[h[p].plan[i].token] # ReadFails
             /\ \A t \in Tokens :
                   /\ getPool(h[p].game, t) # NoRow
                   /\ h[p].reads[t] # ReadFails
                   /\ h[p].reads[t] > 0
                   => \E i \in 1..Len(h[p].plan) :
                         /\ h[p].plan[i].token = t
                         /\ h[p].plan[i].amount = Min({getPool(h[p].game, t), h[p].reads[t]})
                         /\ \A j \in 1..Len(h[p].plan) : h[p].plan[j].token = t => j = i

\* The native balance could not be read; the plan pays the other token
C24_Witness ==
    \E p \in Procs :
       /\ h[p].reply = "plan"
       /\ h[p].reads[NATIVE] = ReadFails
       /\ getPool(h[p].game, NATIVE) # NoRow
       /\ Len(h[p].plan) = 1
       /\ h[p].plan[1].token # NATIVE
\* C25: a winner announcement that fails after the confirmed transfer changes
\* nothing in the store: the Payout row of the transfer stays, the game stays
\* PAYOUT_PENDING and its winner stays
C25_FailedAnnouncementKeepsSettlement ==
    [][\A p \in Procs :
          h'[p].error = "announceWinner"
             => /\ h'[p].pc = "done"
                /\ h'[p].confirmed
                /\ PayoutRow(h'[p].game, h'[p].plan[1], h'[p].tx) \in payouts'
                /\ games'[h'[p].game].state = "PAYOUT_PENDING"
                /\ h[p].error # "announceWinner"
                      => /\ h[p].pc = "announceWinner"
                         /\ store' = store
                         /\ games[h[p].game].winnerUserId # NoId]_vars

\* A handler whose announcement failed, with the Payout row of its transfer
C25_Witness ==
    \E p \in Procs :
       /\ h[p].error = "announceWinner"
       /\ h[p].tx > 0
       /\ \E r \in payouts : r.gameId = h[p].game /\ r.txHash = h[p].tx
       /\ games[h[p].game].state = "PAYOUT_PENDING"
       /\ games[h[p].game].winnerUserId = h[p].user

\* C26: the definition lookup always answers, with a definition or with none,
\* and changes nothing; the announcement is sent after it, and a handler whose
\* lookup found nothing still starts the next game once the announcement is sent
C26_DefinitionLookupNeverBlocks ==
    [][\A p \in Procs :
          /\ h[p].pc = "getWordDefinition" /\ h'[p] # h[p]
                => /\ h'[p].pc = "announceWinner"
                   /\ h'[p].definition \in {"text", "null"}
                   /\ h'[p].error = "none"
                   /\ store' = store
          /\ h[p].pc = "announceWinner" /\ h[p].definition = "null" /\ h'[p] # h[p]
                => \/ h'[p].error = "announceWinner"
                   \/ /\ h'[p].pc = "createGame_select"
                      /\ "startNewGame" \in h'[p].ops
          /\ h'[p].definition = "null" => h'[p].error \in {"none", "announceWinner", "startNewGame"}]_vars

\* A handler whose lookup found no definition has announced the winner and
\* started the next game
C26_Witness ==
    \E p \in Procs :
       /\ h[p].definition = "null"
       /\ h[p].pc = "done"
       /\ h[p].reply = "winner"
       /\ h[p].created # NoGame
       /\ games[h[p].created].state = "ACTIVE"
\* C27: a handler answers that the payout failed only when no transfer was
\* confirmed for its game, never for a game that has success Payout rows
C27_PayoutFailedOnlyWithoutTransfer ==
    \A p \in Procs :
       h[p].reply = "payout_failed"
          => /\ ~h[p].confirmed
             /\ \A r \in payouts : r.gameId = h[p].game => r.status # "success"
\* The rows of the store that belong to channel d: its counter, its games, and
\* the guesses, pool balances, deposits, payouts and eligibility entries of
\* those games
ChannelView(d) ==
    LET gs == {g \in 1..Len(games) : games[g].channelId = d}
    IN  [ counter  |-> counters[d],
          games    |-> [g \in gs |-> games[g]],
          guesses  |-> [r \in {x \in BagToSet(guesses) : x.gameId \in gs} |-> guesses[r]],
          pools    |-> [g \in gs |-> pools[g]],
          deposits |-> [r \in {x \in BagToSet(deposits) : x.gameId \in gs} |-> deposits[r]],
          payouts  |-> {r \in payouts : r.gameId \in gs},
          eligible |-> {r \in eligible : r[1] \in gs} ]

\* C28: a step of a handler for channel c leaves the counter, games, guesses,
\* pool balances, deposits, payouts and eligibility entries of every other
\* channel as they were
C28_ChannelsIndependent ==
    [][\A p \in Procs :
          h'[p] # h[p]
             => LET c == IF h[p].chan # 0 THEN h[p].chan ELSE h'[p].chan
                IN  \A d \in Channels \ {c} : ChannelView(d)' = ChannelView(d)]_vars

\* A handler for channel 2 has written a guess while channel 1 holds a game
\* with a tracked balance
C28_Witness ==
    \E p \in Procs :
       /\ h[p].chan = 2
       /\ h[p].kind = "guess"
       /\ h[p].game # NoGame
       /\ games[h[p].game].channelId = 2
       /\ \E r \in BagToSet(guesses) : r.gameId = h[p].game
       /\ \E g \in 1..Len(games) :
             games[g].channelId = 1 /\ getPool(g, NATIVE) # NoRow
\* C29: no step lowers the tracked balance of any game and token; a pool row,
\* once there, stays
C29_TrackedBalanceNeverDecreases ==
    [][\A g \in GameIds, t \in Tokens :
          getPoolBalance(g, t)' >= getPoolBalance(g, t)]_vars
\* The guess "abcde" has been scored against the target "edcba" by handler p
AbcdeAgainstEdcba(p) ==
    /\ h[p].reply = "feedback"
    /\ h[p].guess = Word("a","b","c","d","e")
    /\ games[h[p].game].targetWord = Word("e","d","c","b","a")

\* C30 as stated: computeFeedback("abcde", "edcba") marks all five positions
\* yellow
C30_AbcdeEdcbaAllYellow ==
    \A p \in Procs :
       AbcdeAgainstEdcba(p) => h[p].feedback = [i \in 1..5 |-> "yellow"]

\* C30: computeFeedback("abcde", "edcba") marks the third position, where both
\* words have c, green, and the four other positions yellow
C30_AbcdeEdcbaMiddleGreen ==
    \A p \in Procs :
       AbcdeAgainstEdcba(p)
          => h[p].feedback = <<"yellow", "yellow", "green", "yellow", "yellow">>

\* "abcde" has been scored against "edcba"
C30_Witness ==
    \E p \in Procs :
       /\ AbcdeAgainstEdcba(p)
       /\ h[p].pc = "done"
       /\ Len(h[p].feedback) = 5
\* The positions of word w that hold letter ch
PositionsOf(w, ch) == {i \in 1..Len(w) : w[i] = ch}

\* C31: for every scored pair of words and every letter, the positions of the
\* guess with that letter that are green or yellow are as many as the smaller
\* of its occurrences in guess and target, the yellow ones come before the
\* gray ones, and "aabbb" against "ababa" is green, yellow, yellow, green, gray
C31_DuplicateLetterConsumption ==
    \A p \in Procs :
       h[p].reply = "feedback"
          => LET guess == lowerWord(h[p].guess)
                 target == lowerWord(games[h[p].game].targetWord)
                 fb == h[p].feedback
             IN  /\ \A ch \in {guess[i] : i \in 1..5} :
                        LET marked == {i \in PositionsOf(guess, ch) : fb[i] # "gray"}
                            greens == {i \in PositionsOf(guess, ch) : fb[i] = "green"}
                            yellows == {i \in PositionsOf(guess, ch) : fb[i] = "yellow"}
                        IN  /\ Cardinality(marked)
                                  = Min({Count(guess, ch), Count(target, ch)})
                            /\ Cardinality(yellows)
                                  <= Count(target, ch) - Cardinality(greens)
                            /\ \A i \in yellows, j \in PositionsOf(guess, ch) :
                                  fb[j] = "gray" => i < j
                 /\ guess = Word("a","a","b","b","b") /\ target = Word("a","b","a","b","a")
                       => fb = <<"green", "yellow", "yellow", "green", "gray">>

\* "aabbb" has been scored against "ababa": the third b is gray
C31_Witness ==
    \E p \in Procs :
       /\ h[p].reply = "feedback"
       /\ h[p].guess = Word("a","a","b","b","b")
       /\ games[h[p].game].targetWord = Word("a","b","a","b","a")
       /\ h[p].feedback[3] = "yellow"
       /\ h[p].feedback[5] = "gray"
\* Letters that differ only in their case
LetterCases == {{"A", "a"}, {"B", "b"}, {"C", "c"}, {"R", "r"}, {"N", "n"}, {"E", "e"}}
SameLetter(a, b) == a = b \/ \E c \in LetterCases : a \in c /\ b \in c
SameWord(v, w) == Len(v) = Len(w) /\ \A i \in 1..Len(v) : SameLetter(v[i], w[i])

\* C32: computeFeedback throws exactly when one of the words is not 5 letters
\* long; otherwise position i is green exactly when guess and target have the
\* same letter there, ignoring case, and isCorrect holds exactly when the two
\* words are equal ignoring case
C32_GreenIffSameLetter ==
    \A p \in Procs :
       h[p].pc = "done"
          => LET guess == h[p].guess
                 target == games[h[p].game].targetWord
                 fb == h[p].feedback
             IN  IF Len(guess) # 5 \/ Len(target) # 5
                 THEN h[p].error = "computeFeedback" /\ fb = <<>>
                 ELSE /\ h[p].error = "none"
                      /\ h[p].reply = "feedback"
                      /\ Len(fb) = 5
                      /\ \A i \in 1..5 :
                            fb[i] = "green" <=> SameLetter(guess[i], target[i])
                      /\ isCorrect(fb) <=> SameWord(guess, target)

\* A guess in capitals has been scored all green against its target in small
\* letters
C32_Witness ==
    \E p \in Procs :
       /\ h[p].pc = "done"
       /\ h[p].guess = Word("C","R","A","N","E")
       /\ games[h[p].game].targetWord = Word("c","r","a","n","e")
       /\ isCorrect(h[p].feedback)
       /\ h[p].reply = "feedback"
\* The games of the space of handler p that have a winner, and those that
\* user u has won
WonGames(p) ==
    {g \in 1..Len(games) : /\ SpaceOf(games[g].channelId) = SpaceOf(h[p].chan)
                           /\ games[g].winnerUserId # NoId}
WonBy(p, u) == {g \in WonGames(p) : games[g].winnerUserId = u}

RECURSIVE SumOver(_, _)
SumOver(S, f) ==
    IF S = {} THEN 0
    ELSE LET x == CHOOSE y \in S : TRUE IN f[x] + SumOver(S \ {x}, f)

\* What the leaderboard of handler p has to say about user u
BoardEntry(p, u) ==
    [userId |-> u,
     wins |-> Cardinality(WonBy(p, u)),
     totalGuesses |-> SumOver(WonBy(p, u), [g \in WonBy(p, u) |-> UserGuessCount(g, u)]),
     totalWinnings |-> SumOver(WonBy(p, u), [g \in WonBy(p, u) |-> SuccessWinnings(g)])]

\* Entry a is not ranked below entry b
RankedNotBelow(a, b) ==
    a.wins > b.wins \/ (a.wins = b.wins /\ a.totalWinnings >= b.totalWinnings)

\* C33: the leaderboard has one entry for each winner of the space's games,
\* up to the limit, with the wins, the winner's guesses and the success
\* payouts of the games the user won; the entries are in descending order of
\* wins, then winnings, and no winner left out ranks above one that is in
C33_LeaderboardEntries ==
    \A p \in Procs :
       h[p].kind = "leaderboard" /\ h[p].pc = "done"
          => LET es == h[p].entries
                 winners == {games[g].winnerUserId : g \in WonGames(p)}
                 shown == {es[i].userId : i \in 1..Len(es)}
             IN  /\ Len(es) = Min({h[p].limit, Cardinality(winners)})
                 /\ \A i, j \in 1..Len(es) : es[i].userId = es[j].userId => i = j
                 /\ \A i \in 1..Len(es) :
                       es[i].userId \in winners /\ es[i] = BoardEntry(p, es[i].userId)
                 /\ \A i, j \in 1..Len(es) : i < j => RankedNotBelow(es[i], es[j])
                 /\ \A u \in winners \ shown, i \in 1..Len(es) :
                       RankedNotBelow(es[i], BoardEntry(p, u))

\* Two users have won games of the space with the same number of wins; the
\* one with the larger winnings won the later game and is first in the list
C33_Witness ==
    \E p \in Procs :
       /\ h[p].kind = "leaderboard" /\ h[p].pc = "done"
       /\ Len(h[p].entries) = 2
       /\ h[p].entries[1].wins = h[p].entries[2].wins
       /\ h[p].entries[1].totalWinnings > h[p].entries[2].totalWinnings
       /\ \E g1 \in WonBy(p, h[p].entries[1].userId),
             g2 \in WonBy(p, h[p].entries[2].userId) : g2 < g1
       /\ \E g \in 1..Len(games) :
             games[g].winnerUserId = NoId /\ games[g].state = "PAYOUT_PENDING"
\* No call of addToPool is between its getPool and its update or insert
NoAddToPoolInFlight ==
    \A p \in Procs :
       /\ h[p].dep \notin {"getPool", "addToPool"}
       /\ h[p].pc \notin {"sync_addToPool", "rollover_addToPool"}

\* C34: once every addToPool call on a game's native pool has completed, the
\* trackedBalance is the sum of the amounts the calls were given: the amounts
\* of the deposits, and the credits of syncWalletBalanceToPool and rollover
C34_AddToPoolAdditive ==
    NoAddToPoolInFlight
       => \A g \in Games :
             getPoolBalance(g, NATIVE) = credited[g] + DepositSum(g, NATIVE)
\* C35: every Deposit row, every pool credit of a tip and every eligibility
\* entry is written for a game that is ACTIVE in the store at that moment
C35_NoTipBookedToEndedGame ==
    [][/\ \A r \in BagToSet(deposits' (-) deposits) :
             games[r.gameId].state = "ACTIVE"
       /\ \A r \in eligible' \ eligible : games[r[1]].state = "ACTIVE"
       /\ \A p \in Procs :
             h[p].dep = "addToPool" /\ h'[p].dep = "done"
                => games[h[p].game].state = "ACTIVE"]_vars
\* C36: when a rollover credits the tracked balance of a game to the game it
\* created, the game rolled out of has no winner
C36_NoRolloverOfWonGame ==
    [][\A p \in Procs :
          h[p].pc = "rollover_addToPool" /\ pools' # pools
             => games[h[p].cur].winnerUserId = NoId]_vars
\* C37: the (token, amount) list a handler has passed to announceWinner is
\* the list of the success Payout rows recorded for its game
C37_AnnouncedPrizeIsPaid ==
    \A p \in Procs :
       "startNewGame" \in h[p].ops
          => {<<h[p].prize[i].token, h[p].prize[i].amount>> : i \in 1..Len(h[p].prize)}
                = {<<r.token, r.amount>> :
                      r \in {x \in payouts : x.gameId = h[p].game /\ x.status = "success"}}
\* The identifiers a user can be known by
AllIds == {userIdOf[u] : u \in Users} \cup {senderAddressOf[u] : u \in Users}

\* C38: nobody is eligible for a game at its creation, whatever was tipped to
\* the games before it, and an identifier becomes eligible for a game only by
\* a write of a tip handler of that identifier's user for that game
C38_EligibilityDoesNotCarryOver ==
    [][/\ Len(games') > Len(games)
             => \A id \in AllIds : ~isEligiblePlayer(Len(games), id)'
       /\ eligible' # eligible \/ deposits' # deposits
             => \A g \in 1..Len(games), id \in AllIds :
                   isEligiblePlayer(g, id)' /\ ~isEligiblePlayer(g, id)
                      => \E p \in Procs :
                            /\ h[p].kind = "tip"
                            /\ h[p].game = g
                            /\ toLowerCase(id) \in {toLowerCase(h[p].user),
                                                    toLowerCase(h[p].sender)}]_vars

\* A rollover has credited the pool of the game it created with the balance
\* of the game before; the tipper of that game is eligible for it and not for
\* the new game
C38_Witness ==
    \E p \in Procs, u \in Users :
       /\ h[p].kind = "config" /\ h[p].pc = "done" /\ h[p].rolled > 0
       /\ h[p].cur # NoGame /\ h[p].created # NoGame
       /\ getPoolBalance(h[p].created, NATIVE) > 0
       /\ isEligiblePlayer(h[p].cur, userIdOf[u])
       /\ ~isEligiblePlayer(h[p].created, userIdOf[u])
       /\ ~isEligiblePlayer(h[p].created, senderAddressOf[u])
\* C39: in every state an ACTIVE game has no winnerUserId and no wonAt, a game
\* has a winnerUserId exactly when it has a wonAt, and the winner of a game
\* has a Guess row in it whose word is the game's target
C39_WinnerFieldsConsistent ==
    \A g \in Games :
       /\ games[g].state = "ACTIVE"
             => games[g].winnerUserId = NoId /\ games[g].wonAt = "null"
       /\ games[g].winnerUserId # NoId <=> games[g].wonAt # "null"
       /\ games[g].winnerUserId # NoId
             => \E r \in BagToSet(guesses) :
                   /\ r.gameId = g
                   /\ r.userId = games[g].winnerUserId
                   /\ r.guess = games[g].targetWord

\* A won game with its winner, wonAt and winning guess, next to the ACTIVE
\* game that followed it
C39_Witness ==
    \E g1, g2 \in Games :
       /\ games[g1].state = "PAYOUT_PENDING"
       /\ games[g1].winnerUserId # NoId
       /\ games[g1].wonAt = "now"
       /\ \E r \in BagToSet(guesses) :
             r.gameId = g1 /\ r.userId = games[g1].winnerUserId
       /\ games[g2].state = "ACTIVE"
       /\ games[g2].channelId = games[g1].channelId
       /\ games[g2].gameNumber > games[g1].gameNumber
\* C40: a handler that has finished after its transfer was confirmed and its
\* Payout row recorded has created a new game of the channel, ACTIVE at its
\* creation, with a larger gameNumber than the game it paid
C40_SettlementStartsNextGame ==
    \A p \in Procs :
       h[p].pc = "done" /\ h[p].confirmed /\ "recordPayout" \in h[p].ops
          => /\ h[p].created # NoGame
             /\ h[p].created # h[p].game
             /\ games[h[p].created].channelId = games[h[p].game].channelId
             /\ games[h[p].created].gameNumber > games[h[p].game].gameNumber
====
